---- MODULE Spec2Model ----
(***************************************************************************)
(* Line 6 Pocket POD web MIDI editor (src/src/PocketPodEditor.jsx).        *)
(*                                                                         *)
(* Two specifications share this module:                                   *)
(*   CodecSpec - the pure codec functions (decodeNibbles, decodePatchName, *)
(*               parsePatchDump and the nibble encoder of the test         *)
(*               helper) applied to inputs drawn from bounded sets;        *)
(*   Spec      - the PocketPodEditor component: its React state, the input *)
(*               port's message handler and the inbound MIDI messages.     *)
(*                                                                         *)
(* JavaScript values are modelled as follows: arrays are sequences (the    *)
(* 0-based element i of the code is element i+1 here, see Get), strings    *)
(* are sequences of UTF-16 code units, null and undefined are the integers *)
(* Null and Undefined, objects are functions from key strings to values.   *)
(***************************************************************************)
EXTENDS Integers, Sequences, FiniteSets, TLC

\* ------------------------------------------------------------------------
\* JavaScript primitives
\* ------------------------------------------------------------------------

Null == 0 - 1

Undefined == 0 - 2

\* data[i] of a JavaScript array (0-based; undefined outside the array)
Get(data, i) == IF i >= 0 /\ i < Len(data) THEN data[i + 1] ELSE Undefined

\* Array.prototype.slice(from, to) for 0 <= from <= to
Slice(data, from, to) ==
  LET hi == IF to < Len(data) THEN to ELSE Len(data)
  IN  IF from >= hi THEN <<>> ELSE SubSeq(data, from + 1, hi)

RECURSIVE BitAnd(_, _)
\* a & b for non-negative integers
BitAnd(a, b) ==
  IF a = 0 \/ b = 0 THEN 0
  ELSE (a % 2) * (b % 2) + 2 * BitAnd(a \div 2, b \div 2)

RECURSIVE BitOr(_, _)
\* a | b for non-negative integers
BitOr(a, b) ==
  IF a = 0 THEN b
  ELSE IF b = 0 THEN a
  ELSE (IF a % 2 = 1 \/ b % 2 = 1 THEN 1 ELSE 0) + 2 * BitOr(a \div 2, b \div 2)

\* a << n: the operands are MIDI bytes (0..255) shifted by 4, so the result
\* stays below 2^12 and the 32-bit wrap of the JavaScript operator is not reached
ShiftLeft(a, n) == a * (2 ^ n)

\* a >> n for a non-negative integer
ShiftRight(a, n) == a \div (2 ^ n)

\* String.fromCharCode(b): one UTF-16 code unit
fromCharCode(b) == b % 65536

\* the code units String.prototype.trim() strips, among those below 4096
WhiteSpace == {9, 10, 11, 12, 13, 32, 160}

RECURSIVE TrimStart(_)
TrimStart(s) ==
  IF s # <<>> /\ Head(s) \in WhiteSpace THEN TrimStart(Tail(s)) ELSE s

RECURSIVE TrimEnd(_)
TrimEnd(s) ==
  IF s # <<>> /\ s[Len(s)] \in WhiteSpace
  THEN TrimEnd(SubSeq(s, 1, Len(s) - 1)) ELSE s

\* String.prototype.trim(): strips white space at both ends
Trim(s) == TrimStart(TrimEnd(s))

\* ------------------------------------------------------------------------
\* Protocol constants
\* ------------------------------------------------------------------------

LINE6_MANUFACTURER_ID == <<0, 1, 12>>

POCKET_POD_DEVICE_ID == 1

MIDI_CHANNEL == 0

SYSEX_START == 240

SYSEX_END == 247

OPCODE_PATCH_DUMP_REQUEST == 0

OPCODE_PATCH_DUMP == 1

IDENTITY_REQUEST == <<240, 126, 127, 6, 1, 247>>

REQUEST_EDIT_BUFFER ==
  <<SYSEX_START>> \o LINE6_MANUFACTURER_ID
    \o <<POCKET_POD_DEVICE_ID, OPCODE_PATCH_DUMP_REQUEST, 1, SYSEX_END>>

\* the request written without its closing SYSEX_END
REQUEST_ALL_PRESETS_Unterminated ==
  <<SYSEX_START>> \o LINE6_MANUFACTURER_ID
    \o <<POCKET_POD_DEVICE_ID, OPCODE_PATCH_DUMP_REQUEST, 2>>

REQUEST_ALL_PRESETS ==
  <<SYSEX_START>> \o LINE6_MANUFACTURER_ID
    \o <<POCKET_POD_DEVICE_ID, OPCODE_PATCH_DUMP_REQUEST, 2, SYSEX_END>>

\* the table with Drive Enable given the controller number of Distortion Enable
MIDI_CC_MAP_SharedCC == <<
  [key |-> "ampModel",          cc |-> 12, min |-> 0, max |-> 31],
  [key |-> "drive",             cc |-> 13, min |-> 0, max |-> 127],
  [key |-> "bass",              cc |-> 14, min |-> 0, max |-> 127],
  [key |-> "mid",               cc |-> 15, min |-> 0, max |-> 127],
  [key |-> "treble",            cc |-> 16, min |-> 0, max |-> 127],
  [key |-> "chanVol",           cc |-> 17, min |-> 0, max |-> 127],
  [key |-> "drive2",            cc |-> 20, min |-> 0, max |-> 127],
  [key |-> "presence",          cc |-> 21, min |-> 0, max |-> 127],
  [key |-> "reverb_level",      cc |-> 18, min |-> 0, max |-> 127],
  [key |-> "reverb_type",       cc |-> 37, min |-> 0, max |-> 1],
  [key |-> "reverb_decay",      cc |-> 38, min |-> 0, max |-> 127],
  [key |-> "reverb_tone",       cc |-> 39, min |-> 0, max |-> 127],
  [key |-> "reverb_diffusion",  cc |-> 40, min |-> 0, max |-> 127],
  [key |-> "reverb_density",    cc |-> 41, min |-> 0, max |-> 127],
  [key |-> "effect",            cc |-> 19, min |-> 0, max |-> 15],
  [key |-> "effect_tweak",      cc |-> 1,  min |-> 0, max |-> 127],
  [key |-> "effect_speed",      cc |-> 51, min |-> 0, max |-> 127],
  [key |-> "effect_depth",      cc |-> 52, min |-> 0, max |-> 127],
  [key |-> "effect_feedback",   cc |-> 53, min |-> 0, max |-> 127],
  [key |-> "effect_predelay",   cc |-> 54, min |-> 0, max |-> 127],
  [key |-> "noise_gate",        cc |-> 23, min |-> 0, max |-> 127],
  [key |-> "noise_gate_decay",  cc |-> 24, min |-> 0, max |-> 127],
  [key |-> "delay_time",        cc |-> 30, min |-> 0, max |-> 127],
  [key |-> "delay_time_fine",   cc |-> 62, min |-> 0, max |-> 127],
  [key |-> "delay_feedback",    cc |-> 32, min |-> 0, max |-> 127],
  [key |-> "delay_level",       cc |-> 34, min |-> 0, max |-> 127],
  [key |-> "cabModel",          cc |-> 71, min |-> 0, max |-> 15],
  [key |-> "air",               cc |-> 72, min |-> 0, max |-> 127],
  [key |-> "wah_position",      cc |-> 4,  min |-> 0, max |-> 127],
  [key |-> "wah_bottom",        cc |-> 44, min |-> 0, max |-> 127],
  [key |-> "wah_top",           cc |-> 45, min |-> 0, max |-> 127],
  [key |-> "vol_level",         cc |-> 7,  min |-> 0, max |-> 127],
  [key |-> "vol_min",           cc |-> 46, min |-> 0, max |-> 127],
  [key |-> "vol_position",      cc |-> 47, min |-> 0, max |-> 127],
  [key |-> "dist_enable",       cc |-> 25, min |-> 0, max |-> 1],
  [key |-> "drive_enable",      cc |-> 25, min |-> 0, max |-> 1],
  [key |-> "eq_enable",         cc |-> 27, min |-> 0, max |-> 1],
  [key |-> "delay_enable",      cc |-> 28, min |-> 0, max |-> 1],
  [key |-> "reverb_enable",     cc |-> 36, min |-> 0, max |-> 1],
  [key |-> "noise_gate_enable", cc |-> 22, min |-> 0, max |-> 1],
  [key |-> "mod_fx_enable",     cc |-> 50, min |-> 0, max |-> 1],
  [key |-> "bright_switch",     cc |-> 73, min |-> 0, max |-> 1] >>

\* Object.entries(MIDI_CC_MAP), in insertion order
MIDI_CC_MAP == <<
  [key |-> "ampModel",          cc |-> 12, min |-> 0, max |-> 31],
  [key |-> "drive",             cc |-> 13, min |-> 0, max |-> 127],
  [key |-> "bass",              cc |-> 14, min |-> 0, max |-> 127],
  [key |-> "mid",               cc |-> 15, min |-> 0, max |-> 127],
  [key |-> "treble",            cc |-> 16, min |-> 0, max |-> 127],
  [key |-> "chanVol",           cc |-> 17, min |-> 0, max |-> 127],
  [key |-> "drive2",            cc |-> 20, min |-> 0, max |-> 127],
  [key |-> "presence",          cc |-> 21, min |-> 0, max |-> 127],
  [key |-> "reverb_level",      cc |-> 18, min |-> 0, max |-> 127],
  [key |-> "reverb_type",       cc |-> 37, min |-> 0, max |-> 1],
  [key |-> "reverb_decay",      cc |-> 38, min |-> 0, max |-> 127],
  [key |-> "reverb_tone",       cc |-> 39, min |-> 0, max |-> 127],
  [key |-> "reverb_diffusion",  cc |-> 40, min |-> 0, max |-> 127],
  [key |-> "reverb_density",    cc |-> 41, min |-> 0, max |-> 127],
  [key |-> "effect",            cc |-> 19, min |-> 0, max |-> 15],
  [key |-> "effect_tweak",      cc |-> 1,  min |-> 0, max |-> 127],
  [key |-> "effect_speed",      cc |-> 51, min |-> 0, max |-> 127],
  [key |-> "effect_depth",      cc |-> 52, min |-> 0, max |-> 127],
  [key |-> "effect_feedback",   cc |-> 53, min |-> 0, max |-> 127],
  [key |-> "effect_predelay",   cc |-> 54, min |-> 0, max |-> 127],
  [key |-> "noise_gate",        cc |-> 23, min |-> 0, max |-> 127],
  [key |-> "noise_gate_decay",  cc |-> 24, min |-> 0, max |-> 127],
  [key |-> "delay_time",        cc |-> 30, min |-> 0, max |-> 127],
  [key |-> "delay_time_fine",   cc |-> 62, min |-> 0, max |-> 127],
  [key |-> "delay_feedback",    cc |-> 32, min |-> 0, max |-> 127],
  [key |-> "delay_level",       cc |-> 34, min |-> 0, max |-> 127],
  [key |-> "cabModel",          cc |-> 71, min |-> 0, max |-> 15],
  [key |-> "air",               cc |-> 72, min |-> 0, max |-> 127],
  [key |-> "wah_position",      cc |-> 4,  min |-> 0, max |-> 127],
  [key |-> "wah_bottom",        cc |-> 44, min |-> 0, max |-> 127],
  [key |-> "wah_top",           cc |-> 45, min |-> 0, max |-> 127],
  [key |-> "vol_level",         cc |-> 7,  min |-> 0, max |-> 127],
  [key |-> "vol_min",           cc |-> 46, min |-> 0, max |-> 127],
  [key |-> "vol_position",      cc |-> 47, min |-> 0, max |-> 127],
  [key |-> "dist_enable",       cc |-> 25, min |-> 0, max |-> 1],
  [key |-> "drive_enable",      cc |-> 26, min |-> 0, max |-> 1],
  [key |-> "eq_enable",         cc |-> 27, min |-> 0, max |-> 1],
  [key |-> "delay_enable",      cc |-> 28, min |-> 0, max |-> 1],
  [key |-> "reverb_enable",     cc |-> 36, min |-> 0, max |-> 1],
  [key |-> "noise_gate_enable", cc |-> 22, min |-> 0, max |-> 1],
  [key |-> "mod_fx_enable",     cc |-> 50, min |-> 0, max |-> 1],
  [key |-> "bright_switch",     cc |-> 73, min |-> 0, max |-> 1] >>

\* Object.entries(PATCH_PARAM_MAP): integer-like keys, in ascending order
PATCH_PARAM_MAP == <<
  [offset |-> 0,  key |-> "dist_enable"],
  [offset |-> 1,  key |-> "drive_enable"],
  [offset |-> 2,  key |-> "eq_enable"],
  [offset |-> 3,  key |-> "delay_enable"],
  [offset |-> 4,  key |-> "mod_fx_enable"],
  [offset |-> 5,  key |-> "reverb_enable"],
  [offset |-> 6,  key |-> "noise_gate_enable"],
  [offset |-> 7,  key |-> "bright_switch"],
  [offset |-> 8,  key |-> "ampModel"],
  [offset |-> 9,  key |-> "drive"],
  [offset |-> 10, key |-> "drive2"],
  [offset |-> 11, key |-> "bass"],
  [offset |-> 12, key |-> "mid"],
  [offset |-> 13, key |-> "treble"],
  [offset |-> 14, key |-> "presence"],
  [offset |-> 15, key |-> "chanVol"],
  [offset |-> 16, key |-> "noise_gate"],
  [offset |-> 17, key |-> "noise_gate_decay"],
  [offset |-> 18, key |-> "wah_position"],
  [offset |-> 19, key |-> "wah_bottom"],
  [offset |-> 20, key |-> "wah_top"],
  [offset |-> 22, key |-> "vol_level"],
  [offset |-> 23, key |-> "vol_min"],
  [offset |-> 24, key |-> "vol_position"],
  [offset |-> 26, key |-> "delay_time"],
  [offset |-> 27, key |-> "delay_time_fine"],
  [offset |-> 34, key |-> "delay_feedback"],
  [offset |-> 36, key |-> "delay_level"],
  [offset |-> 38, key |-> "reverb_type"],
  [offset |-> 39, key |-> "reverb_decay"],
  [offset |-> 40, key |-> "reverb_tone"],
  [offset |-> 41, key |-> "reverb_diffusion"],
  [offset |-> 42, key |-> "reverb_density"],
  [offset |-> 43, key |-> "reverb_level"],
  [offset |-> 44, key |-> "cabModel"],
  [offset |-> 45, key |-> "air"],
  [offset |-> 46, key |-> "effect"],
  [offset |-> 47, key |-> "effect_tweak"],
  [offset |-> 48, key |-> "effect_speed"],
  [offset |-> 50, key |-> "effect_depth"],
  [offset |-> 52, key |-> "effect_feedback"],
  [offset |-> 53, key |-> "effect_predelay"] >>

DEFAULT_PARAMS ==
  [k \in {MIDI_CC_MAP[i].key : i \in DOMAIN MIDI_CC_MAP} |->
     CASE k \in {"drive", "bass", "mid", "treble", "presence", "reverb_decay",
                 "reverb_tone", "reverb_diffusion", "reverb_density",
                 "effect_tweak", "effect_speed", "effect_depth",
                 "noise_gate_decay"} -> 64
       [] k \in {"chanVol", "vol_level"} -> 100
       [] k \in {"wah_top", "vol_position"} -> 127
       [] k = "reverb_level" -> 40
       [] k = "delay_time" -> 40
       [] k = "delay_feedback" -> 30
       [] k = "delay_level" -> 50
       [] OTHER -> 0]

\* ------------------------------------------------------------------------
\* Codec harness state
\* ------------------------------------------------------------------------

VARIABLES
  \* the input drawn, the functions applied to it, the value they returned
  cKind, cInput, cOps, cOutput

\* ------------------------------------------------------------------------
\* Nibble codec
\* ------------------------------------------------------------------------

\* for (let i = 0; i < data.length - 1; i += 2) bytes.push(...): from i on
\* the loop makes (data.length - i) div 2 passes, and pass k pushes the byte
\* of the nibbles at i + 2(k - 1) and i + 2(k - 1) + 1
decodeNibblesLoop(data, i, bytes) ==
  bytes \o [k \in 1..((Len(data) - i) \div 2) |->
              BitOr(ShiftLeft(Get(data, i + 2 * (k - 1)), 4),
                    Get(data, i + 2 * (k - 1) + 1))]

\* the loop bound written as i < data.length: the unpaired last nibble is
\* paired with undefined, and (x << 4) | undefined is x << 4
decodeNibblesOffByOne(data) ==
  decodeNibblesLoop(IF Len(data) % 2 = 1 THEN Append(data, 0) ELSE data, 0, <<>>)

decodeNibblesLowFirstLoop(data, i, bytes) ==
  bytes \o [k \in 1..((Len(data) - i) \div 2) |->
              BitOr(ShiftLeft(Get(data, i + 2 * (k - 1) + 1), 4),
                    Get(data, i + 2 * (k - 1)))]

\* the two nibbles of a pair taken in the other order
decodeNibblesLowFirst(data) == decodeNibblesLowFirstLoop(data, 0, <<>>)

\* the byte array kept outside the function and never emptied: a call
\* starts from the bytes the previous decodeNibbles call of the burst left
decodeNibblesShared(data) ==
  decodeNibblesLoop(data, 0,
    IF cKind = "burst" /\ cOutput # <<>>
         /\ cOutput[Len(cOutput)].fn = "decodeNibbles"
    THEN cOutput[Len(cOutput)].result
    ELSE <<>>)

decodeNibbles(data) == decodeNibblesLoop(data, 0, <<>>)

\* bytes.map((b) => String.fromCharCode(b)).join("")
CharString(bytes) == [i \in 1..Len(bytes) |-> fromCharCode(bytes[i])]

decodePatchName(nibbles) == Trim(CharString(decodeNibbles(nibbles)))

\* for (const byte of full71) { push((byte >> 4) & 0x0F); push(byte & 0x0F) }:
\* byte j gives the nibbles at 2j - 1 and 2j
encodeNibbles(bytes) ==
  <<>> \o [k \in 1..(2 * Len(bytes)) |->
             IF k % 2 = 1
             THEN BitAnd(ShiftRight(bytes[(k + 1) \div 2], 4), 15)
             ELSE BitAnd(bytes[k \div 2], 15)]

\* ------------------------------------------------------------------------
\* Patch dump parser
\* ------------------------------------------------------------------------

\* the value null where the code expects an object
NullObject == [isNull |-> TRUE]

\* Number of nibblized payload bytes of a patch dump
PAYLOAD_NIBBLES == 142

\* decoded payload: the name is bytes NAME_START .. NAME_END - 1
NAME_START == 55

NAME_END == 71

\* the program number byte of a stored preset dump not skipped
nibbleStartAlways8(isEditBuffer) == 8

\* nibbleStart = 8 for an edit buffer dump, 9 for a stored preset dump
nibbleStartOf(isEditBuffer) == IF isEditBuffer THEN 8 ELSE 9

\* the byte after the mapped one
paramByteNext(decoded, byteIdx) == Get(decoded, byteIdx + 1)

\* const rawValue = decoded[byteIdx]
paramByte(decoded, byteIdx) == Get(decoded, byteIdx)

\* for (const [offset, key] of Object.entries(PATCH_PARAM_MAP))
\*   params[key] = decoded[Number(offset)]
\* from entry i on: a key is left with the byte of its last entry, a key
\* without an entry with what params held
mapParams(decoded, i, params) ==
  LET entries == i..Len(PATCH_PARAM_MAP)
      lastEntry(key) ==
        CHOOSE j \in entries :
          /\ PATCH_PARAM_MAP[j].key = key
          /\ \A k \in entries : PATCH_PARAM_MAP[k].key = key => k <= j
  IN  [key \in {PATCH_PARAM_MAP[j].key : j \in entries} |->
         paramByte(decoded, PATCH_PARAM_MAP[lastEntry(key)].offset)] @@ params

\* the empty object {}
EmptyObject == [k \in {} |-> 0]

parsePatchDump(data) ==
  LET isEditBuffer == (Get(data, 6) = 1)
      presetNumber == IF isEditBuffer THEN Null ELSE Get(data, 7)
      nibbleStart == nibbleStartOf(isEditBuffer)
      nibblizedPayload == Slice(data, nibbleStart, nibbleStart + PAYLOAD_NIBBLES)
  IN  IF Len(nibblizedPayload) < PAYLOAD_NIBBLES THEN NullObject
      ELSE LET decoded == decodeNibbles(nibblizedPayload)
               nameBytes == Slice(decoded, NAME_START, NAME_END)
           IN  [name |-> Trim(CharString(nameBytes)),
                params |-> mapParams(decoded, 1, EmptyObject),
                presetNumber |-> presetNumber,
                isEditBuffer |-> isEditBuffer]

\* ------------------------------------------------------------------------
\* Frames (the buildPatchDump helper of the protocol tests)
\* ------------------------------------------------------------------------

\* nameChars.split('').map(c => c.charCodeAt(0)), padded with spaces to 16
RECURSIVE padName(_)
padName(nameBytes) ==
  IF Len(nameBytes) < NAME_END - NAME_START
  THEN padName(Append(nameBytes, 32)) ELSE nameBytes

\* [SYSEX_START, ...LINE6_MANUFACTURER_ID, POCKET_POD_DEVICE_ID, 0x01]
dumpHeader ==
  <<SYSEX_START>> \o LINE6_MANUFACTURER_ID
    \o <<POCKET_POD_DEVICE_ID, OPCODE_PATCH_DUMP>>

\* header, meta bytes, nibblized 71 bytes, end marker
buildPatchDump(isEditBuffer, presetNumber, paramBytes, nameChars) ==
  LET metaBytes == IF isEditBuffer THEN <<1, 0>> ELSE <<0, presetNumber, 0>>
      full71 == paramBytes \o SubSeq(padName(nameChars), 1, NAME_END - NAME_START)
  IN  dumpHeader \o metaBytes \o encodeNibbles(full71) \o <<SYSEX_END>>

\* ------------------------------------------------------------------------
\* State
\* ------------------------------------------------------------------------

VARIABLES
  \* PocketPodEditor: useState values
  midiAccess, selectedInput, selectedOutput, connected, log, params,
  presetName, deviceInfo, currentPreset, presets, fetchingPresets,
  fetchProgress, dirty, lastMidiActivity, deviceTimeout,
  \* the message the input port delivered in the last step, if any
  inbound,
  \* PocketPodEditor: inputRef.current.onmidimessage and outputRef.current
  onmidimessage, outputRef,
  \* deferred identity requests (connect's setTimeout) not yet fired
  pendingIdentity,
  \* the messages the last step wrote to the output port
  sent,
  \* PocketPodEditor: the error banners shown (useState errors)
  errors,
  \* the MIDIAccess maps hold the selected input and output ports
  portsPresent

codecVars == <<cKind, cInput, cOps, cOutput>>

editorVars ==
  <<midiAccess, selectedInput, selectedOutput, connected, log, params,
    presetName, deviceInfo, currentPreset, presets, fetchingPresets,
    fetchProgress, dirty, lastMidiActivity, deviceTimeout, inbound,
    onmidimessage, outputRef, pendingIdentity, sent, errors, portsPresent>>

vars == <<codecVars, editorVars>>

\* ------------------------------------------------------------------------
\* Codec harness: bounded inputs
\* ------------------------------------------------------------------------

\* longest raw nibble / byte array drawn
MaxLen == 4

\* most functions applied in a row to one input
MaxChain == 3

\* element values drawn: nibbles 0, 1, 2, 4, 15 and the byte 0xF7
DataVals == {0, 1, 2, 4, 15, 247}

RECURSIVE SeqsUpTo(_, _)
SeqsUpTo(S, n) ==
  IF n = 0 THEN {<<>>}
  ELSE LET shorter == SeqsUpTo(S, n - 1)
       IN  shorter \cup {Append(q, x) : q \in {r \in shorter : Len(r) = n - 1}, x \in S}

RawInputs == SeqsUpTo(DataVals, MaxLen)

\* 55 parameter bytes
ParamPatterns ==
  { [i \in 1..NAME_START |-> 0],
    [i \in 1..NAME_START |-> i - 1],
    [i \in 1..NAME_START |-> IF i - 1 \in {21, 25, 49} THEN 99 ELSE i - 1],
    [i \in 1..NAME_START |-> 127],
    [i \in 1..NAME_START |-> 255] }

\* "Test Patch", "Hi", "", " A", "A B", "ABCDEFGHIJKLMNOP"
NameChars ==
  { <<84, 101, 115, 116, 32, 80, 97, 116, 99, 104>>,
    <<72, 105>>,
    <<>>,
    <<32, 65>>,
    <<65, 32, 66>>,
    <<65, 66, 67, 68, 69, 70, 71, 72, 73, 74, 75, 76, 77, 78, 79, 80>> }

\* program numbers put into stored-preset dumps
PresetNumbers == {0, 42, 123, 124, 127}

\* payload bytes kept when a frame is cut short
PayloadLens == {0, 140, 141, 142}

WellFormedDumps ==
  { buildPatchDump(TRUE, 0, pb, nc) : pb \in ParamPatterns, nc \in NameChars }
  \cup { buildPatchDump(FALSE, pn, pb, nc) :
           pn \in PresetNumbers, pb \in ParamPatterns, nc \in NameChars }

\* a frame whose payload is cut to n bytes, with or without the end marker
Truncate(frame, n, keepEnd) ==
  LET start == IF Get(frame, 6) = 1 THEN 8 ELSE 9
  IN  SubSeq(frame, 1, start + n) \o (IF keepEnd THEN <<SYSEX_END>> ELSE <<>>)

\* a frame with another subtype byte
WithSubtype(frame, t) == [frame EXCEPT ![7] = t]

Frames ==
  { Truncate(f, n, e) : f \in WellFormedDumps, n \in PayloadLens, e \in BOOLEAN }
  \cup { WithSubtype(f, 2) : f \in WellFormedDumps }

\* ------------------------------------------------------------------------
\* Editor: initial state
\* ------------------------------------------------------------------------

\* inbound when the step is not a delivery to the message handler
NoMessage == <<Null>>

\* "—"
EmDash == <<8212>>

Detached == [attached |-> FALSE, presetName |-> <<>>]

EditorInit ==
  /\ midiAccess = FALSE
  /\ selectedInput = FALSE
  /\ selectedOutput = FALSE
  /\ connected = FALSE
  /\ log = <<>>
  /\ params = DEFAULT_PARAMS
  /\ presetName = EmDash
  /\ deviceInfo = NullObject
  /\ currentPreset = 0
  /\ presets = <<>>
  /\ fetchingPresets = FALSE
  /\ fetchProgress = 0
  /\ dirty = FALSE
  /\ lastMidiActivity = Null
  /\ deviceTimeout = FALSE
  /\ inbound = NoMessage
  /\ onmidimessage = Detached
  /\ outputRef = FALSE
  /\ pendingIdentity = 0
  /\ sent = <<>>
  /\ errors = <<>>
  /\ portsPresent = FALSE

CodecIdle ==
  /\ cKind = "none"
  /\ cInput = <<>>
  /\ cOps = <<>>
  /\ cOutput = <<>>

\* ------------------------------------------------------------------------
\* Codec harness: specification
\* ------------------------------------------------------------------------

CodecInit ==
  /\ \/ cKind = "raw" /\ cInput \in RawInputs
     \/ cKind = "frame" /\ cInput \in Frames
  /\ cOps = <<>>
  /\ cOutput = cInput
  /\ EditorInit

CanApply ==
  /\ Len(cOps) < MaxChain
  /\ \A i \in 1..Len(cOps) : cOps[i] \in {"decodeNibbles", "encodeNibbles"}

ApplyDecodeNibbles ==
  /\ cKind = "raw"
  /\ CanApply
  /\ cOutput' = decodeNibbles(cOutput)
  /\ cOps' = Append(cOps, "decodeNibbles")
  /\ UNCHANGED <<cKind, cInput, editorVars>>

ApplyEncodeNibbles ==
  /\ cKind = "raw"
  /\ CanApply
  /\ cOutput' = encodeNibbles(cOutput)
  /\ cOps' = Append(cOps, "encodeNibbles")
  /\ UNCHANGED <<cKind, cInput, editorVars>>

ApplyDecodePatchName ==
  /\ cKind = "raw"
  /\ CanApply
  /\ cOutput' = decodePatchName(cOutput)
  /\ cOps' = Append(cOps, "decodePatchName")
  /\ UNCHANGED <<cKind, cInput, editorVars>>

ApplyParsePatchDump ==
  /\ cOps = <<>>
  /\ cOutput' = parsePatchDump(cInput)
  /\ cOps' = <<"parsePatchDump">>
  /\ UNCHANGED <<cKind, cInput, editorVars>>

CodecNext ==
  \/ ApplyDecodeNibbles
  \/ ApplyEncodeNibbles
  \/ ApplyDecodePatchName
  \/ ApplyParsePatchDump

CodecSpec == CodecInit /\ [][CodecNext]_vars

\* ------------------------------------------------------------------------
\* Properties of the codec (checked under CodecSpec)
\* ------------------------------------------------------------------------

IsBytes(data) == \A i \in 1..Len(data) : data[i] \in 0..255

IsNibbles(data) == \A i \in 1..Len(data) : data[i] \in 0..15

Parsed == cOps = <<"parsePatchDump">> /\ cOutput # NullObject

\* the payload byte o (0-based) of a frame whose payload starts at byte start
PayloadByte(frame, start, o) ==
  BitOr(16 * frame[start + 2 * o + 1], frame[start + 2 * o + 2])

\* C1: decodeNibbles(data) has length floor(len(data)/2) and element i is
\* (data[2i] << 4) | data[2i+1]; the empty input gives the empty output and
\* the last element of an odd-length input is dropped.
C1_DecodeNibblesPairs ==
  (cOps = <<"decodeNibbles">>) =>
    /\ Len(cOutput) = Len(cInput) \div 2
    /\ \A i \in 0..(Len(cOutput) - 1) :
         /\ cOutput[i + 1] = BitOr(16 * cInput[2 * i + 1], cInput[2 * i + 2])
         /\ (cInput[2 * i + 1] <= 15 /\ cInput[2 * i + 2] <= 15)
              => cOutput[i + 1] = 16 * cInput[2 * i + 1] + cInput[2 * i + 2]
    /\ (cInput = <<>> => cOutput = <<>>)

C1_Witness ==
  /\ cOps = <<"decodeNibbles">>
  /\ cInput = <<2, 4, 15>>
  /\ cOutput = <<36>>

\* C2: encodeNibbles emits (byte >> 4) & 0xF then byte & 0xF for each byte,
\* decodeNibbles(encodeNibbles(B)) = B for every byte sequence B, and
\* decodeNibbles(encodeNibbles(decodeNibbles(N))) = decodeNibbles(N) for every
\* even-length nibble sequence N.
C2_NibbleRoundTrip ==
  /\ (cOps = <<"encodeNibbles">> /\ IsBytes(cInput)) =>
       /\ Len(cOutput) = 2 * Len(cInput)
       /\ \A i \in 1..Len(cInput) :
            /\ cOutput[2 * i - 1] = (cInput[i] \div 16) % 16
            /\ cOutput[2 * i] = cInput[i] % 16
  /\ (cOps = <<"encodeNibbles", "decodeNibbles">> /\ IsBytes(cInput)) =>
       cOutput = cInput
  /\ (cOps = <<"decodeNibbles", "encodeNibbles", "decodeNibbles">>
        /\ IsNibbles(cInput) /\ Len(cInput) % 2 = 0) =>
       cOutput = [i \in 1..(Len(cInput) \div 2) |->
                    16 * cInput[2 * i - 1] + cInput[2 * i]]

C2_Witness ==
  /\ cOps = <<"decodeNibbles", "encodeNibbles", "decodeNibbles">>
  /\ cInput = <<15, 15, 4, 1>>
  /\ cOutput = <<255, 65>>

\* number of payload bytes a frame holds after its header, the end marker
\* not counted
PayloadHeld(frame) ==
  LET start == IF Get(frame, 6) = 1 THEN 8 ELSE 9
      body == Len(frame) - start
  IN  IF body > 0 /\ frame[Len(frame)] = SYSEX_END THEN body - 1 ELSE body

\* C3: parsePatchDump returns null for every frame that holds fewer than 142
\* nibblized payload bytes after its header, with or without the 0xF7 end
\* marker.
C3_TruncatedFrameIsNull ==
  (cOps = <<"parsePatchDump">> /\ cKind = "frame"
     /\ PayloadHeld(cInput) < PAYLOAD_NIBBLES)
    => cOutput = NullObject

\* C4: a successful parse is an edit buffer record (isEditBuffer, no preset
\* number, payload read from byte 8) when byte 6 is 0x01 and a stored preset
\* record (preset number = byte 7, payload read from byte 9) when byte 6 is
\* 0x00; presetNumber is null exactly when isEditBuffer is true.
C4_ExactlyOneVariant ==
  Parsed =>
    LET readFrom(start) ==
          /\ cOutput.params["dist_enable"] = PayloadByte(cInput, start, 0)
          /\ cOutput.params["ampModel"] = PayloadByte(cInput, start, 8)
          /\ cOutput.params["effect_predelay"] = PayloadByte(cInput, start, 53)
    IN  /\ (Get(cInput, 6) = 1) =>
             /\ cOutput.isEditBuffer = TRUE
             /\ cOutput.presetNumber = Null
             /\ readFrom(8)
        /\ (Get(cInput, 6) = 0) =>
             /\ cOutput.isEditBuffer = FALSE
             /\ cOutput.presetNumber = Get(cInput, 7)
             /\ readFrom(9)
        /\ (cOutput.presetNumber = Null) <=> (cOutput.isEditBuffer = TRUE)

C4_Witness ==
  /\ Parsed
  /\ Get(cInput, 6) = 0
  /\ cOutput.presetNumber = 42
  /\ cOutput.params["ampModel"] = 8

MappedOffsets == {PATCH_PARAM_MAP[i].offset : i \in DOMAIN PATCH_PARAM_MAP}

UnmappedOffsets == (0..(NAME_START - 1)) \ MappedOffsets

\* the frame with the two nibbles of payload byte o replaced
WithPayloadByte(frame, start, o, hi, lo) ==
  [frame EXCEPT ![start + 2 * o + 1] = hi, ![start + 2 * o + 2] = lo]

\* C5: a successful parse has exactly one parameter per entry of
\* PATCH_PARAM_MAP, the one mapped at offset o being byte o of the decoded
\* payload unchanged; bytes at unmapped offsets influence no parameter.
C5_ParamsAreMappedBytes ==
  Parsed =>
    LET start == IF Get(cInput, 6) = 1 THEN 8 ELSE 9
    IN  /\ DOMAIN cOutput.params
             = {PATCH_PARAM_MAP[i].key : i \in DOMAIN PATCH_PARAM_MAP}
        /\ Cardinality(DOMAIN cOutput.params) = Len(PATCH_PARAM_MAP)
        /\ \A i \in DOMAIN PATCH_PARAM_MAP :
             cOutput.params[PATCH_PARAM_MAP[i].key]
               = PayloadByte(cInput, start, PATCH_PARAM_MAP[i].offset)
        /\ \A o \in UnmappedOffsets :
             parsePatchDump(WithPayloadByte(cInput, start, o, 5, 10)).params
               = cOutput.params

C5_Witness ==
  /\ Parsed
  /\ cOutput.isEditBuffer = TRUE
  /\ \A i \in DOMAIN PATCH_PARAM_MAP :
       cOutput.params[PATCH_PARAM_MAP[i].key] = PATCH_PARAM_MAP[i].offset
  /\ PayloadByte(cInput, 8, 21) = 99

\* C6: the name of a parsed patch, and the result of decodePatchName, is the
\* decoded character string with only trailing padding removed (leading and
\* internal spaces kept); a parsed name has at most 16 characters.
C6_NameTrailingPaddingOnly ==
  /\ (cOps = <<"decodePatchName">>) =>
       cOutput = TrimEnd([i \in 1..(Len(cInput) \div 2) |->
                    BitOr(16 * cInput[2 * i - 1], cInput[2 * i])])
  /\ Parsed =>
       LET start == IF Get(cInput, 6) = 1 THEN 8 ELSE 9
       IN  /\ cOutput.name
                = TrimEnd([i \in 1..(NAME_END - NAME_START) |->
                     PayloadByte(cInput, start, NAME_START + i - 1)])
           /\ Len(cOutput.name) <= NAME_END - NAME_START

\* C7: every value of the params record of a successful parse is in 0..127.
C7_ParamsWithin0To127 ==
  Parsed => \A k \in DOMAIN cOutput.params : cOutput.params[k] \in 0..127

\* C8: the presetNumber of a frame parsed as a stored preset is in 0..123.
C8_PresetNumberWithin0To123 ==
  (Parsed /\ cOutput.isEditBuffer = FALSE) => cOutput.presetNumber \in 0..123

\* ------------------------------------------------------------------------
\* Effect categories (the exports the tests import; spec section 4.5)
\* ------------------------------------------------------------------------

\* category of effect type index i, 0-based
EFFECT_CATEGORIES ==
  [i \in 0..15 |->
     CASE i \in {0, 4, 8, 12} -> "chorus"
       [] i \in {1, 3, 13, 15} -> "flanger"
       [] i = 2 -> "rotary"
       [] i \in {5, 9} -> "tremolo"
       [] i \in {7, 11} -> "compressor"
       [] i = 14 -> "swell"
       [] i = 10 -> "bypass"
       [] i = 6 -> "delay_only"]

\* the controller numbers a category uses for the shared effect parameters
\* (flanger is not enumerated by the spec: no entry here)
EFFECT_CATEGORY_CCS ==
  [c \in {"chorus", "flanger", "rotary", "tremolo", "compressor", "swell",
          "bypass", "delay_only"} |->
     CASE c = "chorus" ->
            {<<51, "effect_speed">>, <<52, "effect_depth">>,
             <<53, "effect_feedback">>, <<54, "effect_predelay">>}
       [] c = "rotary" -> {<<55, "effect_speed">>, <<56, "effect_depth">>}
       [] c = "tremolo" -> {<<58, "effect_speed">>, <<59, "effect_depth">>}
       [] c = "compressor" -> {<<42, "effect_speed">>}
       [] c = "swell" -> {<<49, "effect_speed">>}
       [] OTHER -> {}]

\* the index reduced modulo the table length before the lookup
categoryOfWrapped(effectTypeIndex) == EFFECT_CATEGORIES[effectTypeIndex % 16]

\* the category of an effect type index; an index outside the table has none
categoryOf(effectTypeIndex) ==
  IF effectTypeIndex \in DOMAIN EFFECT_CATEGORIES
  THEN EFFECT_CATEGORIES[effectTypeIndex] ELSE "none"

\* the controller numbers of a category, none for a tag without a table
categoryCCs(category) ==
  IF category \in DOMAIN EFFECT_CATEGORY_CCS
  THEN EFFECT_CATEGORY_CCS[category] ELSE {}

\* the lookup done in the chorus table whatever the effect type is
getEffectCCGeneric(logicalParam, effectTypeIndex) ==
  LET found == {p \in EFFECT_CATEGORY_CCS["chorus"] : p[2] = logicalParam}
  IN  IF found = {} \/ categoryOf(effectTypeIndex) \in {"none", "bypass", "delay_only"}
      THEN Null ELSE (CHOOSE p \in found : TRUE)[1]

\* getEffectCC(logicalParam, effectTypeIndex): the controller number of the
\* sub-parameter in the category of the index, or null
getEffectCC(logicalParam, effectTypeIndex) ==
  LET found == {p \in categoryCCs(categoryOf(effectTypeIndex)) : p[2] = logicalParam}
  IN  IF found = {} THEN Null ELSE (CHOOSE p \in found : TRUE)[1]

\* ------------------------------------------------------------------------
\* Editor: helpers of the handlers
\* ------------------------------------------------------------------------

\* the model keeps the last MaxLog entries of the MIDI monitor (the code
\* keeps the last 200 before appending)
MaxLog == 1

\* most deferred identity requests pending at once
MaxTimers == 1

\* setLog((prev) => [...prev.slice(-200), entry]); an entry is its direction
addLog(prev, dir) ==
  LET kept == IF Len(prev) > MaxLog
              THEN SubSeq(prev, Len(prev) - MaxLog + 1, Len(prev)) ELSE prev
      next == Append(kept, dir)
  IN  IF Len(next) > MaxLog THEN Tail(next) ELSE next

\* most error banners shown at once in the model
MaxErrors == 1

\* setErrors((prev) => [...prev.slice(-4), { id, message }]); a banner is its
\* message
addError(prev, message) ==
  Append(IF Len(prev) > 4 THEN SubSeq(prev, Len(prev) - 3, Len(prev)) ELSE prev,
         message)

\* setErrors((prev) => prev.filter((e) => e.id !== id)) for the banner at i
removeError(prev, i) ==
  [j \in 1..(Len(prev) - 1) |-> IF j < i THEN prev[j] ELSE prev[j + 1]]

\* the operand of a bitwise operator: undefined converts to 0
ToInt32(x) == IF x = Undefined THEN 0 ELSE x

RECURSIVE Digits(_)
\* the decimal digits of a non-negative integer, as character codes
Digits(n) == IF n < 10 THEN <<48 + n>> ELSE Append(Digits(n \div 10), 48 + (n % 10))

\* `Preset ${program + 1}`; undefined + 1 is NaN
PresetLabel(program) ==
  <<80, 114, 101, 115, 101, 116, 32>>
    \o (IF program = Undefined THEN <<78, 97, 78>> ELSE Digits(program + 1))

HexDigit(d) == IF d < 10 THEN 48 + d ELSE 97 + d - 10

\* b.toString(16).padStart(2, "0") for a byte
HexByte(b) == <<HexDigit(b \div 16), HexDigit(b % 16)>>

RECURSIVE JoinHex(_)
\* bytes.map(hex).join(" ")
JoinHex(bytes) ==
  IF bytes = <<>> THEN <<>>
  ELSE IF Len(bytes) = 1 THEN HexByte(bytes[1])
  ELSE HexByte(bytes[1]) \o <<32>> \o JoinHex(Tail(bytes))

\* the identity reply branch of handleMidiMessage
\* the version read through the end of the frame: slice(12, 17)
identityInfoThroughEnd(data) ==
  [manufacturer |-> JoinHex(Slice(data, 5, 8)),
   family |-> JoinHex(Slice(data, 8, 10)),
   member |-> JoinHex(Slice(data, 10, 12)),
   version |-> CharString(Slice(data, 12, 17))]

identityInfo(data) ==
  [manufacturer |-> JoinHex(Slice(data, 5, 8)),
   family |-> JoinHex(Slice(data, 8, 10)),
   member |-> JoinHex(Slice(data, 10, 12)),
   version |-> CharString(Slice(data, 12, 16))]

\* the scan falling through to the last descriptor when none matches
ccMatchFallsToLast(cc, i) ==
  LET hits == {j \in i..(Len(MIDI_CC_MAP) - 1) : MIDI_CC_MAP[j].cc = cc}
  IN  IF hits = {} THEN Len(MIDI_CC_MAP)
      ELSE CHOOSE j \in hits : \A k \in hits : j <= k

\* for (const [key, def] of Object.entries(MIDI_CC_MAP)) if (def.cc === cc)
\* ... break: the index of the first descriptor with that cc, from i on; 0 if none
ccMatch(cc, i) ==
  LET hits == {j \in i..Len(MIDI_CC_MAP) : MIDI_CC_MAP[j].cc = cc}
  IN  IF hits = {} THEN 0
      ELSE CHOOSE j \in hits : \A k \in hits : j <= k

\* a toggle taken as on from 1 up
adjustedValNoThreshold(def, val) == IF def.max = 1 THEN (IF val >= 1 THEN 1 ELSE 0) ELSE val

\* const adjustedVal = def.max === 1 ? (val >= 64 ? 1 : 0) : val
adjustedVal(def, val) == IF def.max = 1 THEN (IF val >= 64 THEN 1 ELSE 0) ELSE val

\* { ...prev, ...next }
Merge(prev, next) == next @@ prev

\* the Control Change branch of handleMidiMessage
applyCC(prev, cc, val) ==
  LET i == ccMatch(cc, 1)
  IN  IF i = 0 THEN prev
      ELSE Merge(prev, MIDI_CC_MAP[i].key :> adjustedVal(MIDI_CC_MAP[i], val))

\* the list with its entries placed by rank: entry i goes to place ranks[i]
placeByRank(list, ranks) ==
  <<>> \o [k \in 1..Len(list) |->
             list[CHOOSE i \in 1..Len(list) : ranks[i] = k]]

\* updated.sort((a, b) => a.number - b.number): a stable sort, so an entry
\* comes after the entries with a smaller number and after the earlier
\* entries with its own number
sortByNumber(list) ==
  placeByRank(list,
    <<>> \o [i \in 1..Len(list) |->
               1 + Cardinality({j \in 1..Len(list) :
                                  \/ list[j].number < list[i].number
                                  \/ /\ list[j].number = list[i].number
                                     /\ j < i})])

\* the updater without its filter: the entry held for the number stays
storePresetKeepsOld(prev, parsed) ==
  sortByNumber(Append(prev, [number |-> parsed.presetNumber,
                             name |-> parsed.name,
                             params |-> parsed.params]))

\* the setPresets updater of the stored preset branch
storePreset(prev, parsed) ==
  LET kept == SelectSeq(prev, LAMBDA p : p.number # parsed.presetNumber)
  IN  sortByNumber(Append(kept, [number |-> parsed.presetNumber,
                                 name |-> parsed.name,
                                 params |-> parsed.params]))

\* the fetch taken as complete one preset early
NUM_PRESETS_OneShort == 124 - 1

\* device presets the fetch counts up to
NUM_PRESETS == 124

\* ------------------------------------------------------------------------
\* Editor: inbound messages drawn
\* ------------------------------------------------------------------------

\* Control Changes: effect type := rotary / chorus, a toggle at both sides of
\* the threshold, a knob of the static table, the rotary speed controller, and
\* a controller number no descriptor has
CCMessages ==
  { <<176 + MIDI_CHANNEL, 19, 2>>, <<176 + MIDI_CHANNEL, 19, 0>>,
    <<176 + MIDI_CHANNEL, 25, 63>>, <<176 + MIDI_CHANNEL, 25, 64>>,
    <<176 + MIDI_CHANNEL, 51, 63>>, <<176 + MIDI_CHANNEL, 55, 100>>,
    <<176 + MIDI_CHANNEL, 99, 64>> }

ProgramChanges == { <<192 + MIDI_CHANNEL, 5>> }

\* buildIdentityReply() of the component tests
IdentityReply ==
  <<240, 126, 1, 6, 2, 0, 1, 12, 0, 1, 0, 1, 49, 46, 48, 48, 247>>

\* an edit buffer dump named "Hi" and one whose name is all padding
EditBufferDumps ==
  { buildPatchDump(TRUE, 0, [i \in 1..NAME_START |-> i - 1], <<72, 105>>),
    buildPatchDump(TRUE, 0, [i \in 1..NAME_START |-> i - 1], <<>>) }

StoredPresetDumps ==
  { buildPatchDump(FALSE, 0, [i \in 1..NAME_START |-> 0], <<72, 105>>) }

\* the short frame of the protocol tests
ShortDump == dumpHeader \o <<1, 0, SYSEX_END>>

InboundMessages ==
  CCMessages \cup ProgramChanges \cup {IdentityReply} \cup EditBufferDumps
    \cup StoredPresetDumps \cup {ShortDump}

\* values the user sets a parameter to from the panel
ParamEdits == { <<"dist_enable", 0>>, <<"dist_enable", 1>>, <<"effect_speed", 63>> }

\* ------------------------------------------------------------------------
\* Editor: actions
\* ------------------------------------------------------------------------

\* navigator.requestMIDIAccess resolves with the Pocket POD plugged in;
\* updatePorts selects its ports
MidiAccessGranted ==
  /\ ~midiAccess
  /\ midiAccess' = TRUE
  /\ portsPresent' = TRUE
  /\ selectedInput' = TRUE
  /\ selectedOutput' = TRUE
  /\ inbound' = NoMessage
  /\ sent' = <<>>
  /\ UNCHANGED <<connected, log, params, presetName, deviceInfo, currentPreset,
                 presets, fetchingPresets, fetchProgress, dirty,
                 lastMidiActivity, deviceTimeout, onmidimessage, outputRef,
                 pendingIdentity, codecVars, errors>>

\* access.onstatechange: the Pocket POD is unplugged or plugged in again;
\* updatePorts selects its ports when it finds them and otherwise leaves the
\* selection as it was
StateChange ==
  /\ midiAccess
  /\ portsPresent' = ~portsPresent
  /\ selectedInput' = (IF portsPresent' THEN TRUE ELSE selectedInput)
  /\ selectedOutput' = (IF portsPresent' THEN TRUE ELSE selectedOutput)
  /\ inbound' = NoMessage
  /\ sent' = <<>>
  /\ UNCHANGED <<midiAccess, connected, log, params, presetName, deviceInfo,
                 currentPreset, presets, fetchingPresets, fetchProgress, dirty,
                 lastMidiActivity, deviceTimeout, onmidimessage, outputRef,
                 pendingIdentity, codecVars, errors>>

\* connect(), from the Connect button (shown while not connected, enabled
\* while an input and an output are selected), with at most maxPending
\* deferred identity requests outstanding
connectUpTo(maxPending) ==
  /\ ~connected
  /\ midiAccess /\ selectedInput /\ selectedOutput
  /\ IF ~portsPresent
     THEN \* midiAccess.inputs.get(selectedInput) is undefined
          /\ Len(errors) < MaxErrors
          /\ onmidimessage' = Detached
          /\ errors' = addError(errors, "port not found")
          /\ inbound' = NoMessage
          /\ sent' = <<>>
          /\ UNCHANGED <<midiAccess, selectedInput, selectedOutput, connected,
                         log, params, presetName, deviceInfo, currentPreset,
                         presets, fetchingPresets, fetchProgress, dirty,
                         lastMidiActivity, deviceTimeout, outputRef,
                         pendingIdentity, codecVars, portsPresent>>
     ELSE /\ pendingIdentity < maxPending
          /\ onmidimessage' = [attached |-> TRUE, presetName |-> presetName]
          /\ outputRef' = TRUE
          /\ connected' = TRUE
          /\ dirty' = FALSE
          /\ log' = <<>>
          /\ lastMidiActivity' = 0
          /\ deviceTimeout' = FALSE
          /\ pendingIdentity' = pendingIdentity + 1
          /\ inbound' = NoMessage
          /\ sent' = <<>>
          /\ UNCHANGED <<midiAccess, selectedInput, selectedOutput, params,
                         presetName, deviceInfo, currentPreset, presets,
                         fetchingPresets, fetchProgress, codecVars, errors,
                         portsPresent>>

\* connect() without its setDirty(false)
ConnectKeepsDirty ==
  /\ ~connected
  /\ midiAccess /\ selectedInput /\ selectedOutput
  /\ IF ~portsPresent
     THEN \* midiAccess.inputs.get(selectedInput) is undefined
          /\ Len(errors) < MaxErrors
          /\ onmidimessage' = Detached
          /\ errors' = addError(errors, "port not found")
          /\ inbound' = NoMessage
          /\ sent' = <<>>
          /\ UNCHANGED <<midiAccess, selectedInput, selectedOutput, connected,
                         log, params, presetName, deviceInfo, currentPreset,
                         presets, fetchingPresets, fetchProgress, dirty,
                         lastMidiActivity, deviceTimeout, outputRef,
                         pendingIdentity, codecVars, portsPresent>>
     ELSE /\ pendingIdentity < MaxTimers
          /\ onmidimessage' = [attached |-> TRUE, presetName |-> presetName]
          /\ outputRef' = TRUE
          /\ connected' = TRUE
          /\ log' = <<>>
          /\ lastMidiActivity' = 0
          /\ deviceTimeout' = FALSE
          /\ pendingIdentity' = pendingIdentity + 1
          /\ inbound' = NoMessage
          /\ sent' = <<>>
          /\ UNCHANGED <<midiAccess, selectedInput, selectedOutput, params,
                         dirty, presetName, deviceInfo, currentPreset, presets,
                         fetchingPresets, fetchProgress, codecVars, errors,
                         portsPresent>>

\* connect() in the editor
Connect ==
  connectUpTo(MaxTimers)

\* setTimeout(() => sendSysEx(IDENTITY_REQUEST), 200) fires
IdentityTimerFires ==
  /\ pendingIdentity > 0
  /\ pendingIdentity' = pendingIdentity - 1
  /\ sent' = IF outputRef THEN <<IDENTITY_REQUEST>> ELSE <<>>
  /\ log' = IF outputRef THEN addLog(log, "OUT") ELSE log
  /\ inbound' = NoMessage
  /\ UNCHANGED <<midiAccess, selectedInput, selectedOutput, connected, params,
                 presetName, deviceInfo, currentPreset, presets,
                 fetchingPresets, fetchProgress, dirty, lastMidiActivity,
                 deviceTimeout, onmidimessage, outputRef, codecVars, errors, portsPresent>>

\* disconnect(force) carried out, the error banners left as newErrors
disconnectWith(newErrors) ==
  /\ onmidimessage' = Detached
  /\ outputRef' = FALSE
  /\ connected' = FALSE
  /\ deviceInfo' = NullObject
  /\ presetName' = EmDash
  /\ dirty' = FALSE
  /\ lastMidiActivity' = Null
  /\ deviceTimeout' = FALSE
  /\ inbound' = NoMessage
  /\ sent' = <<>>
  /\ errors' = newErrors
  /\ UNCHANGED <<midiAccess, selectedInput, selectedOutput, log, params,
                 currentPreset, presets, fetchingPresets, fetchProgress,
                 pendingIdentity, codecVars, portsPresent>>

\* disconnect(force) that leaves the handler on the input port
doDisconnectKeepsHandler ==
  /\ outputRef' = FALSE
  /\ connected' = FALSE
  /\ deviceInfo' = NullObject
  /\ presetName' = EmDash
  /\ dirty' = FALSE
  /\ lastMidiActivity' = Null
  /\ deviceTimeout' = FALSE
  /\ inbound' = NoMessage
  /\ sent' = <<>>
  /\ UNCHANGED <<midiAccess, selectedInput, selectedOutput, log, params,
                 currentPreset, presets, fetchingPresets, fetchProgress,
                 pendingIdentity, codecVars, errors, portsPresent,
                 onmidimessage>>

\* disconnect(force) carried out
doDisconnect ==
  disconnectWith(errors)

\* disconnect(), from the Disconnect button (shown while connected); the
\* user answers window.confirm when there are unsaved changes
Disconnect ==
  /\ connected
  /\ \E confirmed \in BOOLEAN :
       IF dirty /\ ~confirmed
       THEN /\ inbound' = NoMessage
            /\ sent' = <<>>
            /\ UNCHANGED <<midiAccess, selectedInput, selectedOutput, connected,
                           log, params, presetName, deviceInfo, currentPreset,
                           presets, fetchingPresets, fetchProgress, dirty,
                           lastMidiActivity, deviceTimeout, onmidimessage,
                           outputRef, pendingIdentity, codecVars, errors, portsPresent>>
       ELSE doDisconnect

\* handleParamChange(key, value), from a knob, selector or toggle
\* the parameter value put on the wire as it is, a toggle as 1 or 0
ccValueUnscaled(def, value) == value

\* const ccValue = MIDI_CC_MAP[key].max === 1 ? (value ? 127 : 0) : value
ccValue(def, value) ==
  IF def.max = 1 THEN (IF value # 0 THEN 127 ELSE 0) ELSE value

\* handleParamChange(key, value)
handleParamChange(key, value) ==
    LET i == CHOOSE j \in DOMAIN MIDI_CC_MAP : MIDI_CC_MAP[j].key = key
        sends == connected /\ outputRef
    IN  /\ params' = Merge(params, key :> value)
        /\ dirty' = TRUE
        /\ sent' = IF sends
                   THEN << <<176 + MIDI_CHANNEL, MIDI_CC_MAP[i].cc,
                             ccValue(MIDI_CC_MAP[i], value)>> >>
                   ELSE <<>>
        /\ log' = IF sends THEN addLog(log, "OUT") ELSE log
        /\ inbound' = NoMessage
        /\ UNCHANGED <<midiAccess, selectedInput, selectedOutput, connected,
                       presetName, deviceInfo, currentPreset, presets,
                       fetchingPresets, fetchProgress, lastMidiActivity,
                       deviceTimeout, onmidimessage, outputRef,
                       pendingIdentity, codecVars, errors, portsPresent>>

\* the user edits a parameter on the panel
HandleParamChange ==
  \E e \in ParamEdits : handleParamChange(e[1], e[2])

\* the auto-dismiss timer of a banner fires, or the user dismisses it
ErrorDismissed ==
  \E i \in DOMAIN errors :
    /\ errors' = removeError(errors, i)
    /\ inbound' = NoMessage
    /\ sent' = <<>>
    /\ UNCHANGED <<midiAccess, selectedInput, selectedOutput, connected, log,
                   params, presetName, deviceInfo, currentPreset, presets,
                   fetchingPresets, fetchProgress, dirty, lastMidiActivity,
                   deviceTimeout, onmidimessage, outputRef, pendingIdentity,
                   codecVars, portsPresent>>

\* fetchAllPresets(), from the Fetch button (enabled while connected and not
\* fetching)
FetchAllPresets ==
  /\ connected /\ ~fetchingPresets
  /\ fetchingPresets' = TRUE
  /\ presets' = <<>>
  /\ fetchProgress' = 0
  /\ sent' = IF outputRef THEN <<REQUEST_ALL_PRESETS>> ELSE <<>>
  /\ log' = IF outputRef THEN addLog(log, "OUT") ELSE log
  /\ inbound' = NoMessage
  /\ UNCHANGED <<midiAccess, selectedInput, selectedOutput, connected, params,
                 presetName, deviceInfo, currentPreset, dirty,
                 lastMidiActivity, deviceTimeout, onmidimessage, outputRef,
                 pendingIdentity, codecVars, errors, portsPresent>>

\* a dump merged into the parameters whatever it holds
paramsAfterAnyDump(prev, parsed) ==
  IF parsed # NullObject THEN Merge(prev, parsed.params) ELSE prev

\* the parameters after an inbound dump: only an edit buffer dump that parses
\* is merged into them, setParams((prev) => ({ ...prev, ...parsed.params }))
paramsAfterDump(prev, parsed) ==
  IF parsed # NullObject /\ parsed.isEditBuffer
  THEN Merge(prev, parsed.params) ELSE prev

\* handleMidiMessage(event), the handler connect() attached to the input
\* port; presetName is the one of the render that attached it
handleMidiMessage(data) ==
  LET status == Get(data, 0)
      isSysEx == status = SYSEX_START
      isIdentity == /\ isSysEx
                    /\ Get(data, 1) = 126 /\ Get(data, 3) = 6 /\ Get(data, 4) = 2
      isDump == /\ isSysEx
                /\ Get(data, 1) = LINE6_MANUFACTURER_ID[1]
                /\ Get(data, 2) = LINE6_MANUFACTURER_ID[2]
                /\ Get(data, 3) = LINE6_MANUFACTURER_ID[3]
                /\ Get(data, 4) = POCKET_POD_DEVICE_ID
                /\ Get(data, 5) = OPCODE_PATCH_DUMP
      isCC == BitAnd(ToInt32(status), 240) = 176
      isPC == BitAnd(ToInt32(status), 240) = 192
  IN  \E parsed \in {IF isDump THEN parsePatchDump(data) ELSE NullObject} :
      \E updated \in {IF parsed # NullObject /\ ~parsed.isEditBuffer
                       THEN storePreset(presets, parsed) ELSE presets} :
        LET isEdit == parsed # NullObject /\ parsed.isEditBuffer
            isStored == parsed # NullObject /\ ~parsed.isEditBuffer
        IN  /\ log' = addLog(log, "IN")
            /\ lastMidiActivity' = 0
            /\ deviceTimeout' = FALSE
            /\ deviceInfo' = IF isIdentity THEN identityInfo(data) ELSE deviceInfo
            /\ params' = IF isDump THEN paramsAfterDump(params, parsed)
                         ELSE IF isCC
                         THEN applyCC(params, Get(data, 1), Get(data, 2))
                         ELSE params
            /\ presetName' = IF isEdit
                             THEN (IF parsed.name # <<>> THEN parsed.name
                                   ELSE onmidimessage.presetName)
                             ELSE IF isPC THEN PresetLabel(Get(data, 1))
                             ELSE presetName
            /\ currentPreset' = IF isPC THEN Get(data, 1) ELSE currentPreset
            /\ presets' = updated
            /\ fetchProgress' = IF isStored /\ Len(updated) <= NUM_PRESETS
                                THEN Len(updated) ELSE fetchProgress
            /\ fetchingPresets' = IF isStored /\ Len(updated) >= NUM_PRESETS
                                  THEN FALSE ELSE fetchingPresets
            /\ inbound' = data
            /\ sent' = <<>>
            /\ UNCHANGED <<midiAccess, selectedInput, selectedOutput, connected,
                           dirty, onmidimessage, outputRef, pendingIdentity,
                           codecVars, errors, portsPresent>>

\* the input port delivers a message to the attached handler
MidiMessageArrives ==
  /\ onmidimessage.attached
  /\ \E data \in InboundMessages : handleMidiMessage(data)

Init == CodecIdle /\ EditorInit

Next ==
  \/ MidiAccessGranted
  \/ Connect
  \/ IdentityTimerFires
  \/ Disconnect
  \/ HandleParamChange
  \/ MidiMessageArrives

Spec == Init /\ [][Next]_vars

\* ------------------------------------------------------------------------
\* Editor on a live bus: short, truncated and foreign messages, the device
\* unplugged and plugged in again, error banners
\* ------------------------------------------------------------------------

\* Control Changes and Program Changes, whole and cut short
WireControlMessages ==
  { <<176 + MIDI_CHANNEL, 25, 64>>, <<176 + MIDI_CHANNEL, 25, 63>>,
    <<176 + MIDI_CHANNEL, 7, 90>>, <<176 + MIDI_CHANNEL, 99, 64>>,
    <<176 + MIDI_CHANNEL, 7>>, <<176 + MIDI_CHANNEL>>,
    <<192 + MIDI_CHANNEL, 5>>, <<192 + MIDI_CHANNEL>> }

\* the empty message, a lone SysEx start, the short frame of the protocol
\* tests and a Note On
WireOtherMessages ==
  { <<>>, <<SYSEX_START>>, ShortDump, <<144 + MIDI_CHANNEL, 60, 100>> }

WireMessages == WireControlMessages \cup WireOtherMessages

\* the input port delivers a message of the live bus to the attached handler
WireMessageArrives ==
  /\ onmidimessage.attached
  /\ \E data \in WireMessages : handleMidiMessage(data)

WireNext ==
  \/ MidiAccessGranted
  \/ StateChange
  \/ Connect
  \/ IdentityTimerFires
  \/ Disconnect
  \/ HandleParamChange
  \/ ErrorDismissed
  \/ WireMessageArrives

WireSpec == Init /\ [][WireNext]_vars

\* ------------------------------------------------------------------------
\* Editor: properties of the Control Change interpreter
\* ------------------------------------------------------------------------

\* the message the handler has just taken is a Control Change
InboundIsCC(m) == Len(m) = 3 /\ m[1] \div 16 = 11

\* indices of the descriptors of MIDI_CC_MAP with controller number cc
Descriptors(cc) == {i \in DOMAIN MIDI_CC_MAP : MIDI_CC_MAP[i].cc = cc}

\* C9: when an inbound Control Change matches a descriptor, the parameter of
\* the first matching descriptor in table order becomes 1 if the descriptor's
\* max is 1 and the value is >= 64, 0 if its max is 1 and the value is < 64,
\* and the raw value for every other descriptor; no other parameter changes.
C9_CCToggleThreshold ==
  [][ (InboundIsCC(inbound') /\ Descriptors(inbound'[2]) # {}) =>
        LET first == CHOOSE i \in Descriptors(inbound'[2]) :
                       \A j \in Descriptors(inbound'[2]) : i <= j
            def == MIDI_CC_MAP[first]
            val == inbound'[3]
        IN  /\ def.max = 1 /\ val >= 64 => params'[def.key] = 1
            /\ def.max = 1 /\ val < 64 => params'[def.key] = 0
            /\ def.max # 1 => params'[def.key] = val
            /\ DOMAIN params' = DOMAIN params
            /\ \A k \in DOMAIN params \ {def.key} : params'[k] = params[k]
    ]_vars

\* a toggle has been switched on by a Control Change of value 64, off by one
\* of value 63, or a knob has taken the raw value of its Control Change
C9_Witness ==
  \/ inbound = <<176, 25, 64>> /\ params["dist_enable"] = 1
  \/ inbound = <<176, 25, 63>> /\ params["dist_enable"] = 0
       /\ params["effect_speed"] = 63
  \/ inbound = <<176, 51, 63>> /\ params["effect_speed"] = 63
       /\ params["dist_enable"] = 1

\* C10: an inbound Control Change whose controller number is one of the
\* category-specific controller numbers of the category of the currently
\* selected effect type updates the corresponding logical parameter
\* (effect_speed, effect_depth, effect_feedback, effect_predelay).
C10_CategoryCCResolved ==
  [][ (InboundIsCC(inbound') /\ params["effect"] \in DOMAIN EFFECT_CATEGORIES) =>
        \A p \in EFFECT_CATEGORY_CCS[EFFECT_CATEGORIES[params["effect"]]] :
          inbound'[2] = p[1] => params'[p[2]] = inbound'[3]
    ]_vars


\* C15: a parameter changed from the panel while connected puts exactly one
\* message on the wire, [0xB0 | 0, cc of the parameter, value byte]: the value
\* byte of a descriptor with max 1 is 127 for on and 0 for off, that of any
\* other descriptor is the new value itself, and the inbound toggle rule
\* applied to the value byte gives the value the parameter now has.
C15_ParamChangeSendsOneCC ==
  [][(HandleParamChange /\ connected) =>
       \E e \in ParamEdits :
         \E i \in DOMAIN MIDI_CC_MAP :
           /\ MIDI_CC_MAP[i].key = e[1]
           /\ params'[e[1]] = e[2]
           /\ Len(sent') = 1
           /\ Len(sent'[1]) = 3
           /\ sent'[1][1] = 176
           /\ sent'[1][2] = MIDI_CC_MAP[i].cc
           /\ sent'[1][3] = (IF MIDI_CC_MAP[i].max = 1
                             THEN (IF e[2] = 1 THEN 127 ELSE 0)
                             ELSE e[2])
           /\ adjustedVal(MIDI_CC_MAP[i], sent'[1][3]) = params'[e[1]]]_vars

\* the distortion toggle switched on while connected: 127 went out
C15_Witness ==
  /\ connected
  /\ sent = << <<176, 25, 127>> >>
  /\ params["dist_enable"] = 1
  /\ dirty

\* C23: a disconnect that is carried out detaches the message handler, so
\* that no message is delivered while disconnected, and leaves connected
\* false, deviceInfo null, presetName "—", dirty false, lastMidiActivity
\* null and deviceTimeout false; a disconnect is left undone only when there
\* are unsaved changes (the user declined), and then nothing changes.
C23_DisconnectDetaches ==
  [][ /\ (connected /\ ~connected') =>
           /\ ~onmidimessage'.attached
           /\ ~outputRef'
           /\ deviceInfo' = NullObject
           /\ presetName' = <<8212>>
           /\ ~dirty'
           /\ lastMidiActivity' = Null
           /\ ~deviceTimeout'
      /\ ~connected => inbound' = NoMessage
      /\ ~connected' => ~onmidimessage'.attached
      /\ (Disconnect /\ connected') =>
           /\ dirty
           /\ UNCHANGED <<midiAccess, selectedInput, selectedOutput, connected,
                          log, params, presetName, deviceInfo, currentPreset,
                          presets, fetchingPresets, fetchProgress, dirty,
                          lastMidiActivity, deviceTimeout, onmidimessage,
                          outputRef, pendingIdentity, errors>>
    ]_vars

\* disconnected after a session in which an identity request went out and a
\* toggle was switched on
C23_Witness ==
  /\ ~connected
  /\ log # <<>>
  /\ ~onmidimessage.attached
  /\ deviceInfo = NullObject
  /\ presetName = <<8212>>
  /\ ~dirty
  /\ lastMidiActivity = Null
  /\ params["dist_enable"] = 1

\* C25: every parameter of the editor's current parameter state lies within
\* the [min, max] range of its descriptor in MIDI_CC_MAP: a toggle is 0 or 1,
\* ampModel is at most 31, cabModel and effect are at most 15.
C25_ParamsWithinDescriptorRange ==
  \A i \in DOMAIN MIDI_CC_MAP :
    /\ MIDI_CC_MAP[i].key \in DOMAIN params
    /\ params[MIDI_CC_MAP[i].key] \in MIDI_CC_MAP[i].min..MIDI_CC_MAP[i].max

\* ------------------------------------------------------------------------
\* Properties of the editor on a live bus (checked under WireSpec)
\* ------------------------------------------------------------------------

\* C11: an inbound Control Change whose controller number matches no
\* descriptor changes no parameter, nor the preset name, the current preset,
\* the preset library or the dirty flag, and raises no error banner.
C11_UnknownCCIgnored ==
  [][ (InboundIsCC(inbound') /\ Descriptors(inbound'[2]) = {}) =>
        /\ params' = params
        /\ presetName' = presetName
        /\ currentPreset' = currentPreset
        /\ presets' = presets
        /\ dirty' = dirty
        /\ errors' = errors
    ]_vars

\* an unknown controller number has arrived while a banner was shown, the
\* panel had unsaved changes and a toggle had been switched on
C11_Witness ==
  /\ inbound = <<176, 99, 64>>
  /\ errors # <<>>
  /\ dirty
  /\ params["dist_enable"] = 1

\* C17: no two descriptors of MIDI_CC_MAP have the same controller number;
\* so a Control Change changes at most one parameter, and the update made by
\* the first-match scan is the update any matching descriptor of the table
\* gives, whatever the order of the table.
C17_UniqueControllerNumbers ==
  [][ /\ Cardinality({MIDI_CC_MAP[i].cc : i \in DOMAIN MIDI_CC_MAP})
           = Len(MIDI_CC_MAP)
      /\ InboundIsCC(inbound') =>
           /\ Cardinality({k \in DOMAIN params' :
                  k \notin DOMAIN params \/ params'[k] # params[k]}) <= 1
           /\ Cardinality(Descriptors(inbound'[2])) <= 1
           /\ \A i \in Descriptors(inbound'[2]) :
                params' = Merge(params,
                            MIDI_CC_MAP[i].key :>
                              adjustedVal(MIDI_CC_MAP[i], inbound'[3]))
    ]_vars

\* controller 7 has arrived and its one descriptor, Volume Level, took the value
C17_Witness ==
  /\ inbound = <<176, 7, 90>>
  /\ Descriptors(7) # {}
  /\ params["vol_level"] = 90
  /\ params["dist_enable"] = 1

\* C24: connect brings the editor from disconnected to connected only with
\* MIDI access granted, an input and an output selected and both present, and
\* then attaches the message handler, holds the output, clears dirty and the
\* MIDI log, starts the silence period and schedules one identity request,
\* sending nothing yet; with a selected port that is no longer present it
\* raises an error banner and changes nothing else.
C24_ConnectOnSuccessOnly ==
  [][ /\ (~connected /\ connected') =>
           /\ midiAccess /\ selectedInput /\ selectedOutput /\ portsPresent
           /\ onmidimessage'.attached
           /\ outputRef'
           /\ ~dirty'
           /\ log' = <<>>
           /\ lastMidiActivity' = 0
           /\ ~deviceTimeout'
           /\ pendingIdentity' = pendingIdentity + 1
           /\ sent' = <<>>
           /\ UNCHANGED <<params, presetName, deviceInfo, currentPreset,
                          presets, errors>>
      /\ (Connect /\ ~connected') =>
           /\ ~portsPresent
           /\ Len(errors') = Len(errors) + 1
           /\ UNCHANGED <<midiAccess, selectedInput, selectedOutput, connected,
                          log, params, presetName, deviceInfo, currentPreset,
                          presets, fetchingPresets, fetchProgress, dirty,
                          lastMidiActivity, deviceTimeout, onmidimessage,
                          outputRef, pendingIdentity>>
    ]_vars

\* connected, after a first attempt failed on a missing port and a toggle was
\* switched on while offline: dirty and the log are clear, one identity
\* request is scheduled
C24_Witness ==
  /\ connected
  /\ onmidimessage.attached
  /\ errors # <<>>
  /\ params["dist_enable"] = 1
  /\ ~dirty
  /\ log = <<>>
  /\ pendingIdentity = 1
  /\ sent = <<>>

\* a channel message cut short: a Control Change without its value or its
\* controller number, a Program Change without its program number
Truncated(m) ==
  /\ m # NoMessage
  /\ Len(m) > 0
  /\ \/ m[1] \div 16 = 11 /\ Len(m) < 3
     \/ m[1] \div 16 = 12 /\ Len(m) < 2

\* C13: the inbound path raises no exception for malformed wire data:
\* handling a message either updates the state from a well-formed message or
\* ignores it, so a channel message that is cut short changes no parameter,
\* preset name, current preset, preset library or device info.
C13_MalformedIgnored ==
  [][ Truncated(inbound') =>
        /\ params' = params
        /\ presetName' = presetName
        /\ currentPreset' = currentPreset
        /\ presets' = presets
        /\ deviceInfo' = deviceInfo
    ]_vars

\* ------------------------------------------------------------------------
\* Editor and device: identity replies and the preset fetch
\* ------------------------------------------------------------------------

\* identity replies: complete (buildIdentityReply), cut after the header,
\* cut inside the family field, and cut inside the version field but still
\* closed by the end marker
IdentityReplies ==
  { IdentityReply,
    <<240, 126, 127, 6, 2, 125, 16, 10, 3, 0, 4, 0, 50, 46, 49, 65, 247>>,
    SubSeq(IdentityReply, 1, 5),
    SubSeq(IdentityReply, 1, 9),
    SubSeq(IdentityReply, 1, 14) \o <<SYSEX_END>> }

\* stored preset dumps of a fetch: presets 0 and 1
DevicePresetDumps ==
  StoredPresetDumps
    \cup { buildPatchDump(FALSE, 1, [i \in 1..NAME_START |-> i - 1], <<65>>) }

\* the input port delivers an identity reply or a stored preset dump
DeviceMessageArrives ==
  /\ onmidimessage.attached
  /\ \E data \in IdentityReplies \cup DevicePresetDumps : handleMidiMessage(data)

DeviceNext ==
  \/ MidiAccessGranted
  \/ Connect
  \/ IdentityTimerFires
  \/ Disconnect
  \/ FetchAllPresets
  \/ DeviceMessageArrives

DeviceSpec == Init /\ [][DeviceNext]_vars

\* ------------------------------------------------------------------------
\* Properties of the editor and the device (checked under DeviceSpec)
\* ------------------------------------------------------------------------

SysExFramed(m) ==
  /\ Len(m) >= 2
  /\ m[1] = 240
  /\ m[Len(m)] = 247
  /\ \A k \in 2..(Len(m) - 1) : m[k] \in 0..127

\* C16: the outbound requests are the exact bytes F0 7E 7F 06 01 F7
\* (identity), F0 00 01 0C 01 00 01 F7 (edit buffer) and
\* F0 00 01 0C 01 00 02 F7 (all presets); each starts with 0xF0, ends with
\* 0xF7 and has only bytes up to 0x7F between them, and every SysEx message
\* the editor writes to the output port is one of them.
C16_RequestsExactBytes ==
  /\ IDENTITY_REQUEST = <<240, 126, 127, 6, 1, 247>>
  /\ REQUEST_EDIT_BUFFER = <<240, 0, 1, 12, 1, 0, 1, 247>>
  /\ REQUEST_ALL_PRESETS = <<240, 0, 1, 12, 1, 0, 2, 247>>
  /\ \A m \in {IDENTITY_REQUEST, REQUEST_EDIT_BUFFER, REQUEST_ALL_PRESETS} :
       SysExFramed(m)
  /\ \A k \in DOMAIN sent :
       sent[k][1] = 240 =>
         /\ SysExFramed(sent[k])
         /\ sent[k] \in { <<240, 126, 127, 6, 1, 247>>,
                          <<240, 0, 1, 12, 1, 0, 2, 247>> }

\* the all-presets request went out when a fetch was started
C16_Witness ==
  /\ connected
  /\ fetchingPresets
  /\ sent = << <<240, 0, 1, 12, 1, 0, 2, 247>> >>


IsIdentityReply(m) ==
  Len(m) >= 5 /\ m[1] = 240 /\ m[2] = 126 /\ m[4] = 6 /\ m[5] = 2

\* the bytes of m at the 0-based offsets from..(to - 1) that m has
BytesAt(m, from, to) ==
  [k \in 1..(IF Len(m) >= to THEN to - from
             ELSE IF Len(m) > from THEN Len(m) - from ELSE 0) |-> m[from + k]]

HexValue(c) == IF c \in 48..57 THEN c - 48 ELSE c - 97 + 10

\* str is the bytes as two lower-case hex digits each, one space between
IsHexOf(str, bytes) ==
  /\ Len(str) = (IF bytes = <<>> THEN 0 ELSE 3 * Len(bytes) - 1)
  /\ \A k \in 1..Len(bytes) :
       /\ str[3 * k - 2] \in (48..57) \cup (97..102)
       /\ str[3 * k - 1] \in (48..57) \cup (97..102)
       /\ 16 * HexValue(str[3 * k - 2]) + HexValue(str[3 * k - 1]) = bytes[k]
       /\ k < Len(bytes) => str[3 * k] = 32

\* C20: an identity reply (byte 0 = F0, byte 1 = 7E, byte 3 = 06, byte 4 = 02)
\* sets the device info from fixed offsets: manufacturer, family and member
\* are bytes 5-7, 8-9 and 10-11 as two-digit hex joined by spaces, version is
\* bytes 12-15 as characters; a reply shorter than 16 bytes gives the fields
\* of the bytes it has, shorter or empty; in a reply of 17 bytes or more no
\* field holds the closing 0xF7.
C20_IdentityFieldsAtFixedOffsets ==
  [][ IsIdentityReply(inbound') =>
        /\ deviceInfo' # NullObject
        /\ IsHexOf(deviceInfo'.manufacturer, BytesAt(inbound', 5, 8))
        /\ IsHexOf(deviceInfo'.family, BytesAt(inbound', 8, 10))
        /\ IsHexOf(deviceInfo'.member, BytesAt(inbound', 10, 12))
        /\ deviceInfo'.version = BytesAt(inbound', 12, 16)
        /\ Len(inbound') < 16 =>
             /\ Len(deviceInfo'.version) < 4
             /\ Len(deviceInfo'.manufacturer) <= 8
             /\ Len(deviceInfo'.family) <= 5
             /\ Len(deviceInfo'.member) <= 5
        /\ (Len(inbound') >= 17 /\ inbound'[Len(inbound')] = 247) =>
             /\ Len(deviceInfo'.version) = 4
             /\ \A k \in 1..4 : deviceInfo'.version[k] = inbound'[12 + k]
             /\ deviceInfo'.version[4] # 247
    ]_vars

\* the reply of the component tests has arrived: "00 01 0c", "00 01",
\* "00 01" and "1.00"
C20_Witness ==
  /\ inbound = IdentityReply
  /\ deviceInfo # NullObject
  /\ deviceInfo.manufacturer = <<48, 48, 32, 48, 49, 32, 48, 99>>
  /\ deviceInfo.family = <<48, 48, 32, 48, 49>>
  /\ deviceInfo.member = <<48, 48, 32, 48, 49>>
  /\ deviceInfo.version = <<49, 46, 48, 48>>

\* ------------------------------------------------------------------------
\* Codec under a burst of calls
\* ------------------------------------------------------------------------

\* most codec calls made in one burst
MaxBurst == 3

\* the arrays a burst works on: two stored-preset dumps of a fetch, an edit
\* buffer dump, the short frame, and a bare nibble array
BurstPool ==
  << buildPatchDump(FALSE, 0, [i \in 1..NAME_START |-> 0], <<72, 105>>),
     buildPatchDump(FALSE, 123, [i \in 1..NAME_START |-> i - 1], <<65>>),
     buildPatchDump(TRUE, 0, [i \in 1..NAME_START |-> i - 1], <<72, 105>>),
     ShortDump,
     <<4, 8, 6, 9, 2>> >>

BurstInit ==
  /\ cKind = "burst"
  /\ cInput = BurstPool
  /\ cOps = <<>>
  /\ cOutput = <<>>
  /\ EditorInit

\* one call of the burst: the function reads array i of the pool and its
\* return value is kept; no statement of the three functions assigns to an
\* element of its argument or to a module constant
Called(fn, i, result) ==
  /\ cOps' = Append(cOps, fn)
  /\ cOutput' = Append(cOutput, [fn |-> fn, arg |-> i, result |-> result])
  /\ UNCHANGED <<cKind, cInput, editorVars>>

CallDecodeNibbles ==
  /\ cKind = "burst"
  /\ Len(cOps) < MaxBurst
  /\ \E i \in DOMAIN cInput :
       \E result \in {decodeNibbles(cInput[i])} :
         Called("decodeNibbles", i, result)

CallDecodePatchName ==
  /\ cKind = "burst"
  /\ Len(cOps) < MaxBurst
  /\ \E i \in DOMAIN cInput :
       \E result \in {decodePatchName(cInput[i])} :
         Called("decodePatchName", i, result)

CallParsePatchDump ==
  /\ cKind = "burst"
  /\ Len(cOps) < MaxBurst
  /\ \E i \in DOMAIN cInput :
       \E result \in {parsePatchDump(cInput[i])} :
         Called("parsePatchDump", i, result)

BurstNext ==
  \/ CallDecodeNibbles
  \/ CallDecodePatchName
  \/ CallParsePatchDump

BurstSpec == BurstInit /\ [][BurstNext]_vars

COMP_RATIO_LABELS ==
  << [from |-> 0,   label |-> <<79, 102, 102>>],
     [from |-> 22,  label |-> <<49, 46, 52, 58, 49>>],
     [from |-> 64,  label |-> <<50, 58, 49>>],
     [from |-> 85,  label |-> <<51, 58, 49>>],
     [from |-> 107, label |-> <<54, 58, 49>>],
     [from |-> 127, label |-> <<8734, 58, 49>>] >>

\* the band of a value: the last label whose lowest value is not above it
compRatioBand(value) ==
  LET reached == {i \in DOMAIN COMP_RATIO_LABELS : COMP_RATIO_LABELS[i].from <= value}
  IN  IF reached = {} THEN 1
      ELSE CHOOSE i \in reached : \A j \in reached : j <= i

\* a band entered only above its lowest value
formatCompRatioExclusive(value) ==
  LET reached == {i \in DOMAIN COMP_RATIO_LABELS : COMP_RATIO_LABELS[i].from < value}
  IN  IF reached = {} THEN COMP_RATIO_LABELS[1].label
      ELSE COMP_RATIO_LABELS[CHOOSE i \in reached : \A j \in reached : j <= i].label

\* formatCompRatio(value): the label of the band of the value
formatCompRatio(value) == COMP_RATIO_LABELS[compRatioBand(value)].label

\* ------------------------------------------------------------------------
\* Effect category resolver: bounded inputs and specification
\* ------------------------------------------------------------------------

\* the four effect sub-parameters and a parameter that is none of them
LogicalParams ==
  {"effect_speed", "effect_depth", "effect_feedback", "effect_predelay", "drive"}

\* effect type indices: the 16 of the table and some outside it
EffectTypeIndices == (0 - 1)..17 \cup {46, 127}

\* the controller numbers some category uses for an effect sub-parameter
CategoryControllerNumbers ==
  UNION {{p[1] : p \in EFFECT_CATEGORY_CCS[c]} : c \in DOMAIN EFFECT_CATEGORY_CCS}

\* the panel state with the effect type set to the index
paramsWithEffect(effectTypeIndex) == ("effect" :> effectTypeIndex) @@ DEFAULT_PARAMS

\* largest compressor ratio value formatted
MaxCompValue == 200

ResolverInit ==
  /\ \/ /\ cKind = "formatCompRatio"
        /\ cInput \in 0..MaxCompValue
     \/ /\ cKind = "getEffectCC"
        /\ cInput \in {<<lp, idx>> : lp \in LogicalParams, idx \in EffectTypeIndices}
     \/ /\ cKind = "applyCC"
        /\ cInput \in {<<idx, cc, val>> : idx \in {0 - 1, 2, 7, 16, 127},
                                         cc \in CategoryControllerNumbers \cup {19, 99},
                                         val \in {0, 100}}
  /\ cOps = <<>>
  /\ cOutput = cInput
  /\ EditorInit

ApplyGetEffectCC ==
  /\ cKind = "getEffectCC"
  /\ cOps = <<>>
  /\ cOutput' = getEffectCC(cInput[1], cInput[2])
  /\ cOps' = <<"getEffectCC">>
  /\ UNCHANGED <<cKind, cInput, editorVars>>

\* the Control Change branch of handleMidiMessage run on a panel whose effect
\* type is the index
ApplyCCBranch ==
  /\ cKind = "applyCC"
  /\ cOps = <<>>
  /\ cOutput' = applyCC(paramsWithEffect(cInput[1]), cInput[2], cInput[3])
  /\ cOps' = <<"applyCC">>
  /\ UNCHANGED <<cKind, cInput, editorVars>>

ApplyFormatCompRatio ==
  /\ cKind = "formatCompRatio"
  /\ cOps = <<>>
  /\ cOutput' = formatCompRatio(cInput)
  /\ cOps' = <<"formatCompRatio">>
  /\ UNCHANGED <<cKind, cInput, editorVars>>

ResolverNext ==
  \/ ApplyGetEffectCC
  \/ ApplyCCBranch
  \/ ApplyFormatCompRatio

ResolverSpec == ResolverInit /\ [][ResolverNext]_vars

\* C12: getEffectCC resolves the category of the index through the partition
\* {0,4,8,12} chorus, {1,3,13,15} flanger, {2} rotary, {5,9} tremolo, {7,11}
\* compressor, {14} swell, {10} bypass, {6} delay_only and returns the
\* category's controller number of the sub-parameter (chorus 51/52/53/54,
\* rotary 55/56, tremolo 58/59, compressor speed 42, swell speed 49), null
\* when the category does not define the sub-parameter and always for bypass
\* and delay_only.
C12_GetEffectCCTable ==
  (cOps = <<"getEffectCC">>) =>
    LET lp == cInput[1]
        idx == cInput[2]
        isSpeed == lp = "effect_speed"
        isDepth == lp = "effect_depth"
    IN  /\ idx \in {0, 4, 8, 12} =>
             cOutput = CASE isSpeed -> 51
                         [] isDepth -> 52
                         [] lp = "effect_feedback" -> 53
                         [] lp = "effect_predelay" -> 54
                         [] OTHER -> Null
        /\ idx = 2 =>
             cOutput = (IF isSpeed THEN 55 ELSE IF isDepth THEN 56 ELSE Null)
        /\ idx \in {5, 9} =>
             cOutput = (IF isSpeed THEN 58 ELSE IF isDepth THEN 59 ELSE Null)
        /\ idx \in {7, 11} => cOutput = (IF isSpeed THEN 42 ELSE Null)
        /\ idx = 14 => cOutput = (IF isSpeed THEN 49 ELSE Null)
        /\ idx \in {10, 6} => cOutput = Null
        /\ idx \in {1, 3, 13, 15} => categoryOf(idx) = "flanger"
        /\ lp \notin {"effect_speed", "effect_depth", "effect_feedback",
                      "effect_predelay"} => cOutput = Null

\* the rotary depth resolved to 56 and the compressor depth to null
C12_Witness ==
  /\ cOps = <<"getEffectCC">>
  /\ \/ cInput = <<"effect_depth", 2>> /\ cOutput = 56
     \/ cInput = <<"effect_depth", 7>> /\ cOutput = Null

\* C18: an effect type index outside 0..15 has no category: getEffectCC gives
\* null for every sub-parameter, and the Control Change branch run with such
\* an index takes no controller number for a category-specific one (a number
\* that only a category table lists changes nothing, any other number does
\* what the static table says); both return a value.
C18_OutOfRangeIndexHasNoCategory ==
  /\ (cOps = <<"getEffectCC">> /\ cInput[2] \notin 0..15) => cOutput = Null
  /\ (cOps = <<"applyCC">> /\ cInput[1] \notin 0..15) =>
       LET prev == paramsWithEffect(cInput[1])
           cc == cInput[2]
       IN  /\ DOMAIN cOutput = DOMAIN prev
           /\ Descriptors(cc) = {} => cOutput = prev
           /\ \A i \in Descriptors(cc) :
                cOutput = Merge(prev, MIDI_CC_MAP[i].key :>
                                        adjustedVal(MIDI_CC_MAP[i], cInput[3]))

\* index 16 asked for the speed controller, and controller 55 (rotary speed)
\* delivered to a panel whose effect type is 127
C18_Witness ==
  \/ /\ cOps = <<"getEffectCC">>
     /\ cInput = <<"effect_speed", 16>>
     /\ cOutput = Null
  \/ /\ cOps = <<"applyCC">>
     /\ cInput = <<127, 55, 100>>
     /\ cOutput["effect"] = 127
     /\ cOutput["effect_speed"] = DEFAULT_PARAMS["effect_speed"]

\* the place of a label in the order Off, 1.4:1, 2:1, 3:1, 6:1, \u221E:1
LabelRank(label) ==
  CHOOSE i \in 1..6 :
    label = << <<79, 102, 102>>, <<49, 46, 52, 58, 49>>, <<50, 58, 49>>,
               <<51, 58, 49>>, <<54, 58, 49>>, <<8734, 58, 49>> >>[i]

\* C19: formatCompRatio is banded and non-decreasing: 0..21 give Off; 22, 64,
\* 85 and 107 give 1.4:1, 2:1, 3:1 and 6:1; a value between two breakpoints
\* gives the label of the nearest breakpoint below it; 127 and every larger
\* value give \u221E:1; no smaller value has a label later in the order.
C19_CompRatioBands ==
  (cOps = <<"formatCompRatio">>) =>
    /\ cInput \in 0..21 => cOutput = <<79, 102, 102>>
    /\ cInput \in 22..63 => cOutput = <<49, 46, 52, 58, 49>>
    /\ cInput \in 64..84 => cOutput = <<50, 58, 49>>
    /\ cInput \in 85..106 => cOutput = <<51, 58, 49>>
    /\ cInput \in 107..126 => cOutput = <<54, 58, 49>>
    /\ cInput >= 127 => cOutput = <<8734, 58, 49>>
    /\ \A w \in 0..cInput :
         LabelRank(formatCompRatio(w)) <= LabelRank(cOutput)

\* 106, the last value below the breakpoint 107, was formatted as 3:1
C19_Witness ==
  /\ cOps = <<"formatCompRatio">>
  /\ cInput = 106
  /\ cOutput = <<51, 58, 49>>

\* ------------------------------------------------------------------------
\* Editor and the preset library: stored preset dumps in any order
\* ------------------------------------------------------------------------

\* stored preset dumps of presets 0, 1 and 2, each in two versions
LibraryDumps ==
  { buildPatchDump(FALSE, n, [i \in 1..NAME_START |-> 0], <<72, 105>>) : n \in 0..2 }
    \cup { buildPatchDump(FALSE, n, [i \in 1..NAME_START |-> i - 1], <<65>>) : n \in 0..2 }

\* the input port delivers a stored preset dump
LibraryMessageArrives ==
  /\ onmidimessage.attached
  /\ \E data \in LibraryDumps : handleMidiMessage(data)

LibraryNext ==
  \/ MidiAccessGranted
  \/ Connect
  \/ IdentityTimerFires
  \/ Disconnect
  \/ FetchAllPresets
  \/ LibraryMessageArrives

LibrarySpec == Init /\ [][LibraryNext]_vars

\* ------------------------------------------------------------------------
\* Properties of the preset library (checked under LibrarySpec)
\* ------------------------------------------------------------------------

\* m carries the header of a Line 6 patch dump
HasDumpHeader(m) ==
  /\ Len(m) >= 6
  /\ SubSeq(m, 1, 6) = dumpHeader

\* m is a stored preset dump that parses
IsStoredDump(m) ==
  /\ HasDumpHeader(m)
  /\ parsePatchDump(m) # NullObject
  /\ ~parsePatchDump(m).isEditBuffer

NumbersHeld(list) == {list[i].number : i \in DOMAIN list}

\* C21: the library holds one entry for each preset number received since it
\* was last emptied, with the name and params of the latest dump for that
\* number, in strictly ascending order of number: a stored preset dump adds
\* its number to the numbers held, its entry is the dump's, every other entry
\* is kept as it was; no other step changes the library except by emptying it.
C21_LibraryOneEntryPerNumber ==
  [][ /\ \A i \in 1..(Len(presets') - 1) :
           presets'[i].number < presets'[i + 1].number
      /\ IsStoredDump(inbound') =>
           LET parsed == parsePatchDump(inbound')
           IN  /\ NumbersHeld(presets') = NumbersHeld(presets) \cup {parsed.presetNumber}
               /\ \A i \in DOMAIN presets' :
                    IF presets'[i].number = parsed.presetNumber
                    THEN presets'[i] = [number |-> parsed.presetNumber,
                                        name |-> parsed.name,
                                        params |-> parsed.params]
                    ELSE \E j \in DOMAIN presets : presets[j] = presets'[i]
      /\ ~IsStoredDump(inbound') => (presets' = presets \/ presets' = <<>>)
    ]_vars

\* presets 1 and 2 were held and preset 0 named "Hi"; the dump of preset 0
\* named "A" has arrived and stands first
C21_Witness ==
  /\ inbound = buildPatchDump(FALSE, 0, [i \in 1..NAME_START |-> i - 1], <<65>>)
  /\ Len(presets) = 3
  /\ presets[1].name = <<65>>
  /\ presets[1].number = 0
  /\ presets[1].params # presets[2].params
  /\ presets[2].name = <<72, 105>>
  /\ presets[3].number = 2

\* C26: the bulk fetch never stays in progress across a disconnect: whenever
\* the editor is not connected, fetchingPresets is false.
C26_NoFetchWhileDisconnected ==
  ~connected => ~fetchingPresets

\* ------------------------------------------------------------------------
\* Editor and a bulk fetch: the device streams its presets in order
\* ------------------------------------------------------------------------

\* highest preset number the device streams (frame byte 7 goes up to 127)
MaxStream == 125

\* the dump of preset n as the device streams it
StreamDump(n) == buildPatchDump(FALSE, n, [i \in 1..NAME_START |-> 0], <<72, 105>>)

\* the input port delivers the next preset of the stream, or preset 0 again
FetchStreamArrives ==
  /\ onmidimessage.attached
  /\ \E n \in {0, Len(presets)} \cap (0..MaxStream) : handleMidiMessage(StreamDump(n))

FetchNext ==
  \/ MidiAccessGranted
  \/ Connect
  \/ IdentityTimerFires
  \/ Disconnect
  \/ FetchAllPresets
  \/ FetchStreamArrives

FetchSpec == Init /\ [][FetchNext]_vars

\* ------------------------------------------------------------------------
\* Properties of the bulk fetch (checked under FetchSpec)
\* ------------------------------------------------------------------------

\* C22: fetchAllPresets acts only while connected with no fetch in progress,
\* and then empties the library, sets the progress to 0, marks the fetch in
\* progress and sends one all-presets request; while the fetch is in progress
\* fetchProgress is the number of distinct preset numbers held since the
\* request, below 124; fetchProgress never exceeds 124; the fetch stops being
\* in progress at the step that brings the library to 124 presets and at no
\* other step.
C22_FetchProgress ==
  [][ /\ ((sent' # <<>> /\ sent'[1] = <<240, 0, 1, 12, 1, 0, 2, 247>>)
            \/ (~fetchingPresets /\ fetchingPresets')
            \/ (presets # <<>> /\ presets' = <<>>)) =>
           /\ connected
           /\ ~fetchingPresets
           /\ presets' = <<>>
           /\ fetchProgress' = 0
           /\ fetchingPresets'
           /\ sent' = << <<240, 0, 1, 12, 1, 0, 2, 247>> >>
      /\ fetchingPresets' =>
           /\ fetchProgress' = Cardinality(NumbersHeld(presets'))
           /\ fetchProgress' < 124
      /\ fetchProgress' <= 124
      /\ (fetchingPresets /\ ~fetchingPresets') =>
           /\ Cardinality(NumbersHeld(presets')) = 124
           /\ Cardinality(NumbersHeld(presets)) = 123
           /\ fetchProgress' = 124
      /\ (fetchingPresets /\ Cardinality(NumbersHeld(presets')) >= 124) =>
           ~fetchingPresets'
    ]_vars

\* the 124th preset of the stream has arrived and ended the fetch
C22_Witness ==
  /\ connected
  /\ ~fetchingPresets
  /\ fetchProgress = 124
  /\ Len(presets) = 124
  /\ presets[124].number = 123
  /\ inbound = StreamDump(123)

\* ------------------------------------------------------------------------
\* Editor with quick reconnects: a new connection is opened while the
\* deferred identity request of an earlier one is still outstanding
\* ------------------------------------------------------------------------

\* deferred identity requests that may be outstanding at once
MaxReconnectTimers == 2

\* connect() pressed again within 200 ms of an earlier connect()
QuickConnect ==
  connectUpTo(MaxReconnectTimers)

ReconnectNext ==
  \/ MidiAccessGranted
  \/ QuickConnect
  \/ IdentityTimerFires
  \/ Disconnect
  \/ HandleParamChange
  \/ FetchAllPresets

ReconnectSpec == Init /\ [][ReconnectNext]_vars

\* C27: each successful connect causes exactly one identity request, written
\* to that connection's output: a deferred identity request is written only
\* when it is the one scheduled by the connect that opened the current
\* connection (no older deferred request is outstanding), and no message is
\* written while the editor is disconnected or by the step that disconnects.
C27_IdentityRequestPerConnection ==
  [][/\ (sent' = <<IDENTITY_REQUEST>>) => (connected /\ pendingIdentity = 1)
     /\ (sent' # <<>>) => (connected /\ connected' /\ outputRef)
     /\ (connected' /\ ~connected) => pendingIdentity' = pendingIdentity + 1]_vars

\* ------------------------------------------------------------------------
\* Properties of the displayed preset name
\* ------------------------------------------------------------------------

\* m is an edit buffer dump that parses
IsEditBufferDump(m) ==
  /\ HasDumpHeader(m)
  /\ parsePatchDump(m) # NullObject
  /\ parsePatchDump(m).isEditBuffer

\* C28: an edit buffer dump whose decoded name is empty leaves the displayed
\* preset name exactly as it was immediately before the dump, whatever has
\* changed the name since the connection was opened; a non-empty decoded
\* name becomes the displayed preset name.
C28_EmptyNameKeepsPresetName ==
  [][IsEditBufferDump(inbound') =>
       presetName' = IF parsePatchDump(inbound').name = <<>>
                     THEN presetName
                     ELSE parsePatchDump(inbound').name]_vars

\* ------------------------------------------------------------------------
\* Editor with its device-timeout check: a quiet device, the warning after
\* ten seconds and the automatic disconnect after thirty
\* ------------------------------------------------------------------------

\* period of the setInterval of the device-timeout effect, in milliseconds
CHECK_INTERVAL_MS == 2000

\* silence after which the device-timeout warning is raised
WARN_AFTER_MS == 10000

\* silence after which the editor disconnects itself
DISCONNECT_AFTER_MS == 30000

\* milliseconds by which a callback of the interval may run late
TimerJitter == {0, 1}

\* the timeout check with a disconnect that spares unsaved changes
TimeoutCheckAsksWhenDirty ==
  /\ connected
  /\ lastMidiActivity # Null
  /\ \E jitter \in TimerJitter :
       LET checks == lastMidiActivity + 1
           elapsed == CHECK_INTERVAL_MS * checks + jitter
       IN  IF elapsed > DISCONNECT_AFTER_MS /\ ~dirty
           THEN disconnectWith(addError(errors, "unresponsive"))
           ELSE IF elapsed > DISCONNECT_AFTER_MS
           THEN /\ inbound' = NoMessage
                /\ sent' = <<>>
                /\ UNCHANGED <<midiAccess, selectedInput, selectedOutput,
                               connected, log, params, presetName, deviceInfo,
                               currentPreset, presets, fetchingPresets,
                               fetchProgress, dirty, lastMidiActivity,
                               deviceTimeout, onmidimessage, outputRef,
                               pendingIdentity, codecVars, errors,
                               portsPresent>>
           ELSE /\ lastMidiActivity' = checks
                /\ deviceTimeout' = (IF elapsed > WARN_AFTER_MS
                                     THEN TRUE ELSE deviceTimeout)
                /\ inbound' = NoMessage
                /\ sent' = <<>>
                /\ UNCHANGED <<midiAccess, selectedInput, selectedOutput,
                               connected, log, params, presetName, deviceInfo,
                               currentPreset, presets, fetchingPresets,
                               fetchProgress, dirty, onmidimessage, outputRef,
                               pendingIdentity, codecVars, errors,
                               portsPresent>>

\* The effect restarts its interval whenever lastMidiActivity changes, so its
\* callbacks run one period, two periods, ... after the recorded activity.
\* lastMidiActivity is kept relative to the present: null, or the number of
\* callbacks that have run since the activity was recorded (0 when connect or
\* an inbound message has just recorded it).
TimeoutCheck ==
  /\ connected
  /\ lastMidiActivity # Null
  /\ \E jitter \in TimerJitter :
       LET checks == lastMidiActivity + 1
           elapsed == CHECK_INTERVAL_MS * checks + jitter
       IN  IF elapsed > DISCONNECT_AFTER_MS
           THEN disconnectWith(addError(errors, "unresponsive"))
           ELSE /\ lastMidiActivity' = checks
                /\ deviceTimeout' = (IF elapsed > WARN_AFTER_MS
                                     THEN TRUE ELSE deviceTimeout)
                /\ inbound' = NoMessage
                /\ sent' = <<>>
                /\ UNCHANGED <<midiAccess, selectedInput, selectedOutput,
                               connected, log, params, presetName, deviceInfo,
                               currentPreset, presets, fetchingPresets,
                               fetchProgress, dirty, onmidimessage, outputRef,
                               pendingIdentity, codecVars, errors,
                               portsPresent>>

\* what the quiet device sends when it does send: an edit buffer dump, a
\* stored preset dump and a dump frame too short to parse
TimeoutMessages ==
  { buildPatchDump(TRUE, 0, [i \in 1..NAME_START |-> 0], <<72, 105>>),
    buildPatchDump(FALSE, 0, [i \in 1..NAME_START |-> 0], <<72, 105>>),
    ShortDump }

TimeoutMessageArrives ==
  /\ onmidimessage.attached
  /\ \E data \in TimeoutMessages : handleMidiMessage(data)

\* the user switches the distortion on
TimeoutParamChange ==
  handleParamChange("dist_enable", 1)

TimeoutNext ==
  \/ MidiAccessGranted
  \/ Connect
  \/ IdentityTimerFires
  \/ Disconnect
  \/ TimeoutParamChange
  \/ ErrorDismissed
  \/ TimeoutCheck
  \/ TimeoutMessageArrives

TimeoutSpec == Init /\ [][TimeoutNext]_vars

\* the browser runs the interval's callback every period for as long as the
\* effect holds the interval
TimeoutFairSpec == TimeoutSpec /\ WF_vars(TimeoutCheck)

\* ------------------------------------------------------------------------
\* Properties of inbound patch dumps
\* ------------------------------------------------------------------------

\* what a step that delivers a dump touches, apart from the bookkeeping every
\* inbound message does: a stored preset dump the library and the fetch
\* progress, an edit buffer dump the parameters and the displayed name, a
\* dump that does not parse nothing
DumpEffectsDisjoint ==
  /\ UNCHANGED <<midiAccess, selectedInput, selectedOutput, connected,
                 deviceInfo, currentPreset, dirty, onmidimessage, outputRef,
                 pendingIdentity, errors, portsPresent>>
  /\ \A parsed \in {parsePatchDump(inbound')} :
       /\ (parsed # NullObject /\ ~parsed.isEditBuffer) =>
            UNCHANGED <<params, presetName>>
       /\ (parsed # NullObject /\ parsed.isEditBuffer) =>
            UNCHANGED <<presets, fetchProgress, fetchingPresets>>
       /\ parsed = NullObject =>
            UNCHANGED <<params, presetName, presets, fetchProgress,
                        fetchingPresets>>

\* C29: inbound patch dumps touch disjoint parts of the state: a stored
\* preset dump changes only the library and the fetch progress, an edit
\* buffer dump only the parameters and the displayed preset name, neither
\* changes the dirty flag, and a dump that fails to parse changes nothing;
\* besides that, a dump changes the MIDI log, the activity timestamp and the
\* device-timeout warning, which it clears as every inbound message does.
C29_DumpsTouchDisjointState ==
  [][HasDumpHeader(inbound') =>
       /\ DumpEffectsDisjoint
       /\ lastMidiActivity' = 0
       /\ deviceTimeout' = FALSE]_vars

\* C29 as stated: besides its own part of the state a dump changes nothing
\* except the MIDI log and the activity timestamp, so the device-timeout
\* warning stays as it was.
C29_DumpsChangeOnlyLogAndActivity ==
  [][HasDumpHeader(inbound') =>
       /\ DumpEffectsDisjoint
       /\ UNCHANGED deviceTimeout]_vars

\* a dump too short to parse has just arrived at an editor with unsaved
\* changes, a stored preset in its library and an edit buffer loaded
C29_Witness ==
  /\ inbound = ShortDump
  /\ connected
  /\ dirty
  /\ Len(presets) = 1
  /\ presetName = <<72, 105>>
  /\ lastMidiActivity = 0
  /\ ~deviceTimeout

\* ------------------------------------------------------------------------
\* Properties of the device-timeout check
\* ------------------------------------------------------------------------

\* the step is the automatic disconnect: the connection closes and the
\* "unresponsive" banner is added
AutoDisconnects ==
  /\ connected
  /\ ~connected'
  /\ errors' # errors

\* C30: while connected, silence of more than 30 seconds ends in the editor
\* disconnecting itself at its next 2-second check, without confirmation even
\* with unsaved changes; after more than 10 seconds of silence the
\* device-timeout warning is up; any inbound message restarts the silence
\* period and clears the warning, and the editor disconnects itself only
\* after 30 seconds without a message.
C30_DeviceTimeout ==
  /\ [](connected =>
          /\ lastMidiActivity \in 0..15
          /\ (2 * lastMidiActivity > 10 => deviceTimeout)
          /\ (deviceTimeout => 2 * lastMidiActivity >= 10))
  /\ [][/\ AutoDisconnects =>
             /\ 2 * (lastMidiActivity + 1) >= 30
             /\ errors'[Len(errors')] = "unresponsive"
        /\ (connected /\ inbound' # NoMessage) =>
             /\ connected'
             /\ lastMidiActivity' = 0
             /\ ~deviceTimeout']_vars
  /\ (connected /\ lastMidiActivity = 15) ~>
       (~connected \/ lastMidiActivity = 0)
  /\ (connected /\ dirty /\ lastMidiActivity = 15) ~>
       (~dirty \/ lastMidiActivity = 0)

\* the editor has just disconnected itself from a silent device, the
\* distortion the user had switched on still set
C30_Witness ==
  /\ ~connected
  /\ lastMidiActivity = Null
  /\ errors # <<>>
  /\ errors[Len(errors)] = "unresponsive"
  /\ inbound = NoMessage
  /\ params["dist_enable"] = 1

====
